---- MODULE Spec2Model ----
(***************************************************************************)
(* Model of the two text-recovery pipelines of the learning assistant and  *)
(* of the quiz store that sits behind them:                                *)
(*                                                                         *)
(*   - CodeExecutor.sanitize_code          (src/utils/code_executor.py)    *)
(*   - QuizSystem.generate_realtime_quiz and the helpers it calls          *)
(*     (src/utils/quiz_utils.py)                                           *)
(*   - QuizSystem._store_generated_quiz and the lookups of the submit      *)
(*     route (src/utils/quiz_utils.py, src/app.py)                         *)
(*                                                                         *)
(* Python strings are TLA+ strings; the str methods the code uses are      *)
(* defined character by character below.                                   *)
(***************************************************************************)
EXTENDS Integers, Sequences, FiniteSets, TLC

VARIABLES
    code_in,      \* sanitizer: the raw text handed to sanitize_code; in the
                  \* line-by-line run its argument, a text or None
    code_out,     \* sanitizer: sanitize_code(code_in)
    code_out2,    \* sanitizer: sanitize_code(code_out)
    san_pc,       \* sanitizer: "start" | "once" | "twice", "off" when unused;
                  \* in the line-by-line run the loop sanitize_code is in
    is_valid,     \* what validate_syntax(code_in) returned, None before the call
    deps,         \* what detect_dependencies(code_in) returned, None before
    san_lines,    \* sanitize_code, line by line: its local out, and from
                  \* line 44 on its local cleaned_lines
    san_attempts, \* sanitize_code, line by line: ast.parse calls made so far
    san_text,     \* sanitize_code, line by line: its local code, then
                  \* cleaned, then candidate
    san_raw,      \* sanitize_code, line by line: the part of its local
                  \* lines that the loop of line 29 has yet to visit
    san_in_fence  \* sanitize_code, line by line: its local in_fence

VARIABLES
    quizzes,      \* QuizSystem.quizzes: (key, object reference) pairs in
                  \* insertion order
    heap,         \* the dict objects the references point to
    quiz_file,    \* text of the file at QuizSystem.quiz_file
    issued,       \* hex tokens uuid4 has returned so far
    pending,      \* generation requests to come: topic, model reply, hf behaviour
    callers,      \* the request threads of the host
    pc,           \* per thread: the line it is about to run
    loc           \* per thread: its local variables and its last result

VARIABLES
    user_progress, \* progress: the "user_progress" mapping of the file
                   \* data/user_progress.json, user name to record
    course_structure, \* progress: what load_course_structure returns
    progress_out,  \* progress: the last operation and the exception it raised
    progress_ops   \* progress: operations run so far

progress_vars == <<user_progress, course_structure, progress_out, progress_ops>>

san_vars ==
    <<code_in, code_out, code_out2, san_pc, is_valid, deps, san_lines,
      san_attempts,
                   san_text, san_raw, san_in_fence>>

quiz_vars == <<quizzes, heap, quiz_file, issued, pending, callers, pc, loc>>

vars == <<san_vars, quiz_vars, progress_vars>>

-----------------------------------------------------------------------------
(* Python str methods                                                      *)

Char(s, i) == SubSeq(s, i, i)

\* The slice s[m-1:n] of Python: positions m..n, clamped to the string.
Slice(s, m, n) ==
    LET lo == IF m < 1 THEN 1 ELSE m
        hi == IF n > Len(s) THEN Len(s) ELSE n
    IN  IF lo > hi THEN "" ELSE SubSeq(s, lo, hi)

\* The backtick character (a string literal holding a backtick has to hold
\* a single quote after it)
Backtick == SubSeq("`'", 1, 1)

\* str.strip()/lstrip()/rstrip() without argument remove these characters.
Whitespace == {" ", "\t", "\n", "\r", "\f"}

\* Index of the first character of s at or after i that is not in cs;
\* Len(s) + 1 when there is none.
FirstNotIn(s, i, cs) ==
    IF \E k \in i..Len(s) : Char(s, k) \notin cs
    THEN CHOOSE k \in i..Len(s) :
             /\ Char(s, k) \notin cs
             /\ \A j \in i..(k - 1) : Char(s, j) \in cs
    ELSE Len(s) + 1

\* Index of the last character of s at or before i that is not in cs;
\* 0 when there is none.
LastNotIn(s, i, cs) ==
    IF \E k \in 1..i : Char(s, k) \notin cs
    THEN CHOOSE k \in 1..i :
             /\ Char(s, k) \notin cs
             /\ \A j \in (k + 1)..i : Char(s, j) \in cs
    ELSE 0

lstrip_chars(s, cs) == SubSeq(s, FirstNotIn(s, 1, cs), Len(s))

rstrip_chars(s, cs) == SubSeq(s, 1, LastNotIn(s, Len(s), cs))

strip(s) == rstrip_chars(lstrip_chars(s, Whitespace), Whitespace)

startswith(s, p) == Len(s) >= Len(p) /\ SubSeq(s, 1, Len(p)) = p

endswith(s, p) ==
    Len(s) >= Len(p) /\ SubSeq(s, Len(s) - Len(p) + 1, Len(s)) = p

\* str.startswith(tuple): true when some member of the tuple is a prefix.
startswith_any(s, ps) == \E k \in 1..Len(ps) : startswith(s, ps[k])

UpperLetters == "ABCDEFGHIJKLMNOPQRSTUVWXYZ"

LowerLetters == "abcdefghijklmnopqrstuvwxyz"

\* Position of the first character of s at or after i that is in cs, 0 if
\* there is none.
IndexOfAny(s, cs, i) ==
    IF \E k \in i..Len(s) : Char(s, k) \in cs
    THEN CHOOSE k \in i..Len(s) :
             /\ Char(s, k) \in cs
             /\ \A j \in i..(k - 1) : Char(s, j) \notin cs
    ELSE 0

\* Position of the one-character string c in s at or after i, 0 if absent.
IndexIn(s, c, i) == IndexOfAny(s, {c}, i)

RECURSIVE Concat(_, _, _)
\* parts[lo] \o ... \o parts[hi]
Concat(parts, lo, hi) ==
    IF lo > hi THEN ""
    ELSE IF lo = hi THEN parts[lo]
    ELSE Concat(parts, lo, (lo + hi) \div 2)
         \o Concat(parts, ((lo + hi) \div 2) + 1, hi)

\* The lower-case letter of each upper-case letter, and the converse.
LowerOf ==
    [c \in {Char(UpperLetters, k) : k \in 1..26} |->
        Char(LowerLetters, IndexIn(UpperLetters, c, 1))]

UpperOf ==
    [c \in {Char(LowerLetters, k) : k \in 1..26} |->
        Char(UpperLetters, IndexIn(LowerLetters, c, 1))]

lower(s) ==
    Concat([i \in 1..Len(s) |->
               IF Char(s, i) \in DOMAIN LowerOf THEN LowerOf[Char(s, i)]
               ELSE Char(s, i)], 1, Len(s))

upper(s) ==
    Concat([i \in 1..Len(s) |->
               IF Char(s, i) \in DOMAIN UpperOf THEN UpperOf[Char(s, i)]
               ELSE Char(s, i)], 1, Len(s))

\* F of the value of an expression, with the expression evaluated once
\* however often F refers to it.
With(value, F(_)) == CHOOSE r \in {F(v) : v \in {value}} : TRUE

\* The middle one of the positions ps, 0 when there is none.
MiddleOf(ps) ==
    IF ps = {} THEN 0
    ELSE CHOOSE k \in ps :
             Cardinality({j \in ps : j < k}) = Cardinality(ps) \div 2

RECURSIVE SplitRange(_, _, _, _)
\* The pieces of s[lo..hi] between the separators; the range is halved at
\* the separator k so that a long text does not nest deeply.
SplitAt(s, sep, lo, hi, k) ==
    IF k = 0 THEN <<SubSeq(s, lo, hi)>>
    ELSE SplitRange(s, sep, lo, k - 1) \o SplitRange(s, sep, k + 1, hi)

SplitRange(s, sep, lo, hi) ==
    With({k \in lo..hi : Char(s, k) = sep},
         LAMBDA ps : With(MiddleOf(ps), LAMBDA k : SplitAt(s, sep, lo, hi, k)))

\* s.split(sep) for a one-character separator: "".split("\n") is [""].
split(s, sep) == With(s, LAMBDA text : SplitRange(text, sep, 1, Len(text)))

\* sep.join(parts)
join(sep, parts) ==
    Concat([i \in 1..(2 * Len(parts) - 1) |->
               IF i % 2 = 1 THEN parts[(i + 1) \div 2] ELSE sep],
           1, 2 * Len(parts) - 1)

\* s.replace('\r\n', '\n')
replace_crlf(s) ==
    Concat([i \in 1..Len(s) |->
               IF Char(s, i) = "\r" /\ i < Len(s) /\ Char(s, i + 1) = "\n"
               THEN "" ELSE Char(s, i)], 1, Len(s))

\* c in s, for a one-character string c
contains(s, c) == IndexIn(s, c, 1) # 0

-----------------------------------------------------------------------------
(***************************************************************************)
(* ast.parse, as far as sanitize_code depends on it: the outcome of        *)
(* parsing a candidate. The grammar is the part of Python the bounded      *)
(* inputs are written in: simple statements on one line, block headers     *)
(* that need an indented body, decorators, comments and blank lines.       *)
(* Anything else is a SyntaxError.                                         *)
(***************************************************************************)

\* One-line simple statements (ast.parse accepts return at module level:
\* the function-scope check is made by the compiler, not by the parser).
SimpleStmts ==
    {"import os", "import json", "import numpy", "print(1)", "note = 1",
     "x = 1", "return 1", "pass", "code", "python", "\"\"\"doc\"\"\"",
     "import cv2", "import yaml", "import numpy.linalg",
     "from sklearn.svm import SVC", "x = 1; import cv2"}

\* Compound-statement headers: the next logical line must be indented deeper.
BlockHeaders == {"def f():", "class A:", "if __name__ == \"__main__\":"}

\* A decorator must be followed by a def or class at the same indentation.
Decorators == {"@dec"}

Decoratable == {"def f():", "class A:"}

\* Number of leading spaces of a line.
Indent(line) == FirstNotIn(line, 1, {" "}) - 1

\* Blank lines and comment lines are not logical lines.
IsLogical(line) ==
    LET body == strip(line) IN body # "" /\ ~startswith(body, "#")

RECURSIVE PopTo(_, _)
\* Dedent: drop indentation levels deeper than n.
PopTo(stack, n) ==
    IF Len(stack) > 0 /\ stack[Len(stack)] > n
    THEN PopTo(SubSeq(stack, 1, Len(stack) - 1), n)
    ELSE stack

RECURSIVE ParseLines(_, _, _, _, _), ParseLine(_, _, _, _, _, _, _)
\* stack: open indentation levels; expect_block: the previous logical line
\* was a block header; after_dec: the previous logical line was a decorator.
ParseLines(lines, i, stack, expect_block, after_dec) ==
    IF i > Len(lines)
    THEN IF expect_block \/ after_dec THEN "SyntaxError" ELSE "ok"
    ELSE IF ~IsLogical(lines[i])
    THEN ParseLines(lines, i + 1, stack, expect_block, after_dec)
    ELSE ParseLine(lines, i, stack, expect_block, after_dec,
                   Indent(lines[i]), strip(lines[i]))

\* The logical line i, of indentation n and text body
ParseLine(lines, i, stack, expect_block, after_dec, n, body) ==
    LET top == stack[Len(stack)]
        stack1 == IF expect_block THEN Append(stack, n) ELSE PopTo(stack, n)
        indent_ok ==
            IF expect_block THEN n > top
            ELSE /\ n <= top
                 /\ stack1[Len(stack1)] = n
                 /\ (after_dec => n = top)
        known ==
            IF after_dec THEN body \in Decoratable \cup Decorators
            ELSE body \in SimpleStmts \cup BlockHeaders \cup Decorators
    IN  IF ~indent_ok \/ ~known THEN "SyntaxError"
        ELSE With(<<stack1, body \in BlockHeaders, body \in Decorators>>,
                  LAMBDA next : ParseLines(lines, i + 1, next[1], next[2],
                                           next[3]))

\* Stands for a lone surrogate such as U+D800, which a Python str can hold
\* and the text of a module cannot: the text is encoded as UTF-8 before it
\* is parsed, and the encoder rejects the character.
LoneSurrogate == "\\ud800"

\* Does s hold the text part somewhere?
has_substring(s, part) ==
    \E k \in 1..(Len(s) - Len(part) + 1) :
        SubSeq(s, k, k + Len(part) - 1) = part

\* Outcome of ast.parse(src): "ok" or the exception class it raises.
ast_parse(src) ==
    IF has_substring(src, LoneSurrogate) THEN "UnicodeEncodeError"
    ELSE With(split(src, "\n"),
              LAMBDA lines : ParseLines(lines, 1, <<0>>, FALSE, FALSE))

-----------------------------------------------------------------------------
(* CodeExecutor.sanitize_code                                              *)

\* Line 41: the byte-order mark U+FEFF
BOM == "﻿"

\* Line 31: the markdown fence marker, three backticks
Fence == Backtick \o Backtick \o Backtick

RECURSIVE FenceLoop(_, _, _)
\* Lines 27-40: a line whose stripped text starts with a fence marker flips
\* in_fence and is dropped; every other line is appended, inside a fence
\* or not.
FenceLoop(lines, i, in_fence) ==
    IF i > Len(lines) THEN <<>>
    ELSE IF startswith(strip(lines[i]), Fence)
         THEN FenceLoop(lines, i + 1, ~in_fence)
         ELSE <<lines[i]>> \o FenceLoop(lines, i + 1, in_fence)

\* Lines 46-58: does the prelude loop pop this first line?
IsPreludeLine(line) ==
    \E first \in {strip(line)} :
        \/ first = ""
        \/ startswith(first, "#")
        \/ (startswith(first, "**") /\ endswith(first, "**"))
        \/ (startswith(first, "*") /\ endswith(first, "*"))
        \/ lower(first) \in {"python", "python code", "code"}

RECURSIVE PreludeTrim(_)
\* Lines 45-59: while cleaned_lines: pop(0) ... break
PreludeTrim(cleaned_lines) ==
    IF Len(cleaned_lines) > 0 /\ IsPreludeLine(cleaned_lines[1])
    THEN PreludeTrim(Tail(cleaned_lines))
    ELSE cleaned_lines

\* Lines 62-65
starters ==
    <<"import ", "from ", "def ", "class ", "@",
      "if __name__", "\"\"\"", "'''", "#!">>

\* Line 69: does the lstrip of this line start with a starter?
IsStarterLine(line) == startswith_any(lstrip_chars(line, Whitespace), starters)

\* Lines 66-73: 1-based index of the first line at or after i whose lstrip
\* starts with a starter; 0 stands for start_idx = None.
FindStart(cleaned_lines, i) ==
    IF \E k \in i..Len(cleaned_lines) : IsStarterLine(cleaned_lines[k])
    THEN CHOOSE k \in i..Len(cleaned_lines) :
             /\ IsStarterLine(cleaned_lines[k])
             /\ \A j \in i..(k - 1) : ~IsStarterLine(cleaned_lines[j])
    ELSE 0

\* Lines 66-73 without the cut of lines 75-76
PreludeSeek_Keep(cleaned_lines) == cleaned_lines

\* Lines 75-76: start_idx > 0 in Python is index > 1 here.
PreludeSeek(cleaned_lines) ==
    LET start_idx == FindStart(cleaned_lines, 1)
    IN  IF start_idx # 0 /\ start_idx > 1
        THEN SubSeq(cleaned_lines, start_idx, Len(cleaned_lines))
        ELSE cleaned_lines

\* Lines 79-87
trailing_markers == <<Fence, "---", "###", "##", "# ", "**", "*">>

\* Line 96
trailing_keywords ==
    <<"explanation", "note", "notes", "output", "example output", "usage:">>

\* Lines 89-98: does the postamble loop pop this last line?
IsPostambleLine(line) ==
    \E last \in {strip(line)} :
        \/ last = ""
        \/ startswith_any(last, trailing_markers)
        \/ \E lowered \in {lower(last)} :
               startswith_any(lowered, trailing_keywords)

RECURSIVE PostambleTrim(_)
\* Lines 88-99: while cleaned_lines: pop() ... break
PostambleTrim(cleaned_lines) ==
    IF Len(cleaned_lines) > 0 /\ IsPostambleLine(cleaned_lines[Len(cleaned_lines)])
    THEN PostambleTrim(SubSeq(cleaned_lines, 1, Len(cleaned_lines) - 1))
    ELSE cleaned_lines

\* Line 103: for _ in range(200)
RecoveryCap == 200

\* Line 114 with pop(0) in place of pop()
pop_first(cleaned_lines) == Tail(cleaned_lines)

\* Line 114: cleaned_lines.pop() leaves the list without its last line
pop(cleaned_lines) == SubSeq(cleaned_lines, 1, Len(cleaned_lines) - 1)

RECURSIVE RecoveryLoop(_, _)
\* Lines 103-118: parse the candidate; on SyntaxError pop the last line and
\* retry, at most attempts times.
RecoveryLoop(cleaned_lines, attempts) ==
    LET candidate == strip(join("\n", cleaned_lines))
    IN  IF attempts = 0 THEN candidate
        ELSE IF candidate = "" THEN ""
        ELSE LET outcome == ast_parse(candidate)
             IN  IF outcome = "ok" THEN candidate
                 ELSE IF outcome = "SyntaxError"
                 THEN IF Len(cleaned_lines) = 0 THEN candidate
                      ELSE RecoveryLoop(pop(cleaned_lines), attempts - 1)
                 ELSE candidate

\* Lines 22-118
sanitize_code(code) ==
    IF code = "" THEN ""
    ELSE
      LET lines == split(replace_crlf(code), "\n")
          out == FenceLoop(lines, 1, FALSE)
          cleaned == lstrip_chars(strip(join("\n", out)), {BOM})
          trimmed == PreludeTrim(split(cleaned, "\n"))
          sought == PreludeSeek(trimmed)
          kept == PostambleTrim(sought)
      IN  RecoveryLoop(kept, RecoveryCap)

-----------------------------------------------------------------------------
(* Inputs of the sanitizer: texts of at most MaxLines lines over CodeLines *)

MaxLines == 3

CodeLines ==
    {"", Fence \o "python", Fence, "# comment", "#!/usr/bin/python", "import os",
     "print(1)", "Here is the solution:", "**Explanation:** this prints 1",
     "note = 1", "def f():", "    return 1"}

RECURSIVE LineSeqs(_)
\* All sequences of at most n lines.
LineSeqs(n) ==
    IF n = 0 THEN {<<>>}
    ELSE LET shorter == LineSeqs(n - 1)
         IN  shorter \cup {Append(ls, l) : ls \in shorter, l \in CodeLines}

CodeInputs == {join("\n", ls) : ls \in LineSeqs(MaxLines)}


-----------------------------------------------------------------------------
(***************************************************************************)
(* Python values as the quiz code sees them. A value carries its type tag, *)
(* as isinstance() reads it; a dict is its list of (key, value) pairs in   *)
(* insertion order.                                                        *)
(***************************************************************************)

PyStr(s) == [t |-> "str", v |-> s]

PyInt(n) == [t |-> "int", v |-> n]

PyBool(b) == [t |-> "bool", v |-> b]

\* A float, kept as the text of its literal.
PyFloat(lit) == [t |-> "float", v |-> lit]

PyNone == [t |-> "none"]

PyList(items) == [t |-> "list", v |-> items]

PyDict(pairs) == [t |-> "dict", v |-> pairs]

isinstance(x, type) == x.t = type

RECURSIVE KeyIndex(_, _, _)
\* Position of key k among the pairs of a dict, 0 if absent.
KeyIndex(pairs, k, i) ==
    IF i > Len(pairs) THEN 0
    ELSE IF pairs[i][1] = k THEN i
    ELSE KeyIndex(pairs, k, i + 1)

\* k in d
has_key(d, k) == KeyIndex(d.v, k, 1) # 0

\* d.get(k, default)
dict_get(d, k, default) ==
    LET i == KeyIndex(d.v, k, 1)
    IN  IF i = 0 THEN default ELSE d.v[i][2]

\* d[k] = x: an existing key keeps its position.
dict_set(d, k, x) ==
    LET i == KeyIndex(d.v, k, 1)
    IN  IF i = 0 THEN PyDict(Append(d.v, <<k, x>>))
        ELSE PyDict([d.v EXCEPT ![i] = <<k, x>>])

\* d.setdefault(k, x)
setdefault(d, k, x) == IF has_key(d, k) THEN d ELSE dict_set(d, k, x)

\* bool(x): the truth value the if-statements of the code test.
truthy(x) ==
    CASE x.t = "none" -> FALSE
      [] x.t = "bool" -> x.v
      [] x.t = "int" -> x.v # 0
      [] x.t = "str" -> x.v # ""
      [] x.t = "list" -> Len(x.v) > 0
      [] x.t = "dict" -> Len(x.v) > 0
      [] OTHER -> TRUE

DigitChars == "0123456789"

RECURSIVE NatToStr(_)
NatToStr(n) ==
    IF n < 10 THEN Char(DigitChars, n + 1)
    ELSE NatToStr(n \div 10) \o Char(DigitChars, (n % 10) + 1)

IntToStr(n) == IF n < 0 THEN "-" \o NatToStr(0 - n) ELSE NatToStr(n)

RECURSIVE StrToNat(_, _)
\* The number written by a string of digits (acc: value of the digits read).
StrToNat(s, acc) ==
    IF s = "" THEN acc
    ELSE StrToNat(Tail(s), 10 * acc + (IndexIn(DigitChars, Char(s, 1), 1) - 1))

\* str.isdigit(): non-empty and all digits.
isdigit(s) == s # "" /\ FirstNotIn(s, 1, {Char(DigitChars, k) : k \in 1..10}) > Len(s)

RECURSIVE py_repr(_)
\* repr(x) of a scalar or a list of scalars (strings here hold no quotes).
py_repr(x) ==
    CASE x.t = "str" -> "'" \o x.v \o "'"
      [] x.t = "int" -> IntToStr(x.v)
      [] x.t = "float" -> x.v
      [] x.t = "bool" -> (IF x.v THEN "True" ELSE "False")
      [] x.t = "none" -> "None"
      [] x.t = "list" ->
           "[" \o join(", ", [i \in 1..Len(x.v) |-> py_repr(x.v[i])]) \o "]"

\* str(x)
py_str(x) == IF x.t = "str" THEN x.v ELSE py_repr(x)

\* int(x): [ok |-> TRUE, v |-> n], or ok = FALSE when int() raises
\* (TypeError for None and lists, ValueError for a non-numeric string).
py_int(x) ==
    CASE x.t = "int" -> [ok |-> TRUE, v |-> x.v]
      [] x.t = "bool" -> [ok |-> TRUE, v |-> IF x.v THEN 1 ELSE 0]
      [] x.t = "str" ->
           LET s == strip(x.v)
               neg == startswith(s, "-")
               digits == IF neg \/ startswith(s, "+") THEN Tail(s) ELSE s
           IN  IF isdigit(digits)
               THEN [ok |-> TRUE,
                     v |-> IF neg THEN 0 - StrToNat(digits, 0)
                           ELSE StrToNat(digits, 0)]
               ELSE [ok |-> FALSE, v |-> 0]
      [] x.t \in {"none", "list", "dict"} -> [ok |-> FALSE, v |-> 0]

-----------------------------------------------------------------------------
(***************************************************************************)
(* json.loads and json.dump for the JSON the quiz code meets: objects,     *)
(* arrays, strings without escapes, integers, true, false and null.        *)
(***************************************************************************)

JsonFail == [ok |-> FALSE, val |-> PyNone, next |-> 0]

JsonOk(val, next) == [ok |-> TRUE, val |-> val, next |-> next]

\* The character at position i, "" past the end.
At(s, i) == IF i >= 1 /\ i <= Len(s) THEN Char(s, i) ELSE ""

SkipWs(s, i) == FirstNotIn(s, i, {" ", "\n", "\t", "\r"})

\* A string starting at the opening quote at position i.
JsonString(s, i) ==
    LET close == IndexIn(s, "\"", i + 1)
        text == SubSeq(s, i + 1, close - 1)
    IN  IF close = 0 THEN JsonFail
        ELSE IF \E c \in {"\n", "\t", "\r", "\\"} : contains(text, c)
        THEN JsonFail
        ELSE JsonOk(PyStr(text), close + 1)

\* A number starting at position i: -? (0 | [1-9][0-9]*) (. [0-9]+)?
\* An integer is an int, a number with a fraction a float.
JsonNumber(s, i) ==
    LET digit == {Char(DigitChars, k) : k \in 1..10}
        first == IF At(s, i) = "-" THEN i + 1 ELSE i
        last == FirstNotIn(s, first, digit) - 1
        digits == SubSeq(s, first, last)
        n == StrToNat(digits, 0)
        frac_last == FirstNotIn(s, last + 2, digit) - 1
    IN  IF last < first THEN JsonFail
        ELSE IF Len(digits) > 1 /\ Char(digits, 1) = "0" THEN JsonFail
        ELSE IF At(s, last + 1) = "."
        THEN IF frac_last < last + 2 THEN JsonFail
             ELSE JsonOk(PyFloat(SubSeq(s, i, frac_last)), frac_last + 1)
        ELSE JsonOk(PyInt(IF first > i THEN 0 - n ELSE n), last + 1)

RECURSIVE JsonValue(_, _)
RECURSIVE JsonMembers(_, _, _)
RECURSIVE JsonElements(_, _, _)

\* The value that starts with the character c at position j.
JsonValueAt(s, j, c) ==
    CASE c = "{" ->
           IF At(s, SkipWs(s, j + 1)) = "}"
           THEN JsonOk(PyDict(<<>>), SkipWs(s, j + 1) + 1)
           ELSE JsonMembers(s, j + 1, PyDict(<<>>))
      [] c = "[" ->
           IF At(s, SkipWs(s, j + 1)) = "]"
           THEN JsonOk(PyList(<<>>), SkipWs(s, j + 1) + 1)
           ELSE JsonElements(s, j + 1, <<>>)
      [] c = "\"" -> JsonString(s, j)
      [] c = "-" \/ (Len(c) = 1 /\ IndexIn(DigitChars, c, 1) # 0) ->
           JsonNumber(s, j)
      [] Slice(s, j, j + 3) = "null" -> JsonOk(PyNone, j + 4)
      [] Slice(s, j, j + 3) = "true" -> JsonOk(PyBool(TRUE), j + 4)
      [] Slice(s, j, j + 4) = "false" -> JsonOk(PyBool(FALSE), j + 5)
      [] OTHER -> JsonFail

JsonValue(s, i) == JsonValueAt(s, SkipWs(s, i), At(s, SkipWs(s, i)))

\* What follows the value val of the member key: a comma and more members,
\* or the closing brace.
JsonAfterMember(s, acc, key, val) ==
    IF ~val.ok THEN JsonFail
    ELSE IF At(s, SkipWs(s, val.next)) = ","
    THEN JsonMembers(s, SkipWs(s, val.next) + 1,
                     dict_set(acc, key.val.v, val.val))
    ELSE IF At(s, SkipWs(s, val.next)) = "}"
    THEN JsonOk(dict_set(acc, key.val.v, val.val), SkipWs(s, val.next) + 1)
    ELSE JsonFail

\* The colon and the value after the member name key.
JsonMember(s, acc, key) ==
    JsonAfterMember(s, acc, key,
                    IF key.ok /\ At(s, SkipWs(s, key.next)) = ":"
                    THEN JsonValue(s, SkipWs(s, key.next) + 1) ELSE JsonFail)

\* "key": value pairs up to the closing brace; a repeated key keeps its
\* first position and takes the last value.
JsonMembers(s, i, acc) ==
    JsonMember(s, acc,
               IF At(s, SkipWs(s, i)) = "\"" THEN JsonString(s, SkipWs(s, i))
               ELSE JsonFail)

\* What follows the element val: a comma and more elements, or the bracket.
JsonAfterElement(s, acc, val) ==
    IF ~val.ok THEN JsonFail
    ELSE IF At(s, SkipWs(s, val.next)) = ","
    THEN JsonElements(s, SkipWs(s, val.next) + 1, Append(acc, val.val))
    ELSE IF At(s, SkipWs(s, val.next)) = "]"
    THEN JsonOk(PyList(Append(acc, val.val)), SkipWs(s, val.next) + 1)
    ELSE JsonFail

JsonElements(s, i, acc) == JsonAfterElement(s, acc, JsonValue(s, i))

\* The result r of parsing s from position 1 is the result of json.loads
\* when nothing but white space follows the value.
JsonDocument(s, r) ==
    IF r.ok /\ SkipWs(s, r.next) > Len(s)
    THEN [ok |-> TRUE, val |-> r.val]
    ELSE [ok |-> FALSE, val |-> PyNone]

\* json.loads(s): ok = FALSE stands for json.JSONDecodeError.
json_loads(s) == JsonDocument(s, JsonValue(s, 1))

RECURSIVE Spaces(_)
Spaces(n) == IF n = 0 THEN "" ELSE " " \o Spaces(n - 1)

RECURSIVE json_dumps(_, _)
\* json.dumps(x, indent=2) at nesting depth `level`.
json_dumps(x, level) ==
    LET inner == "\n" \o Spaces(2 * (level + 1))
        outer == "\n" \o Spaces(2 * level)
    IN  CASE x.t = "str" -> "\"" \o x.v \o "\""
          [] x.t = "int" -> IntToStr(x.v)
          [] x.t = "float" -> x.v
          [] x.t = "bool" -> (IF x.v THEN "true" ELSE "false")
          [] x.t = "none" -> "null"
          [] x.t = "list" ->
               IF Len(x.v) = 0 THEN "[]"
               ELSE "[" \o inner
                    \o join("," \o inner,
                            [i \in 1..Len(x.v) |-> json_dumps(x.v[i], level + 1)])
                    \o outer \o "]"
          [] x.t = "dict" ->
               IF Len(x.v) = 0 THEN "{}"
               ELSE "{" \o inner
                    \o join("," \o inner,
                            [i \in 1..Len(x.v) |->
                                "\"" \o x.v[i][1] \o "\": "
                                \o json_dumps(x.v[i][2], level + 1)])
                    \o outer \o "}"

-----------------------------------------------------------------------------
(* CodeExecutor.validate_syntax and detect_dependencies                    *)

\* Lines 159-165 for the outcome of ast.parse on the sanitized text. The
\* diagnostic of line 161 is kept as the class of the exception.
validate_result(outcome) ==
    [ok |-> outcome = "ok",
     error |-> IF outcome = "ok" THEN PyNone ELSE PyStr(outcome)]

\* Lines 149-165
validate_syntax(code) == validate_result(ast_parse(sanitize_code(code)))

\* The simple statements of the text: the parts of its lines between the
\* semicolons.
Statements(src) ==
    UNION {{strip(split(ln, ";")[k]) : k \in 1..Len(split(ln, ";"))} :
              ln \in {split(src, "\n")[i] : i \in 1..Len(split(src, "\n"))}}

\* Lines 182-191: the module an import statement adds to dependencies.
\* alias.name of "import a.b" and node.module of "from a.b import c" are
\* "a.b"; split('.')[0] keeps "a". The statements of the grammar import one
\* module by its absolute name.
ImportedBy(stmt) ==
    IF startswith(stmt, "import ")
    THEN {split(SubSeq(stmt, 8, Len(stmt)), ".")[1]}
    ELSE IF startswith(stmt, "from ")
    THEN {split(split(SubSeq(stmt, 6, Len(stmt)), " ")[1], ".")[1]}
    ELSE {}

\* Lines 181-191: ast.walk visits every import statement of the tree.
imported_modules(src) ==
    UNION {ImportedBy(stmt) : stmt \in Statements(src)} \ {"__main__"}

\* Lines 194-201
stdlib ==
    {"os", "sys", "random", "math", "json", "collections", "itertools",
     "functools", "re", "datetime", "time", "pathlib", "io", "pickle", "csv",
     "sqlite3", "unittest", "logging", "argparse", "subprocess", "threading",
     "multiprocessing", "typing", "abc", "warnings", "traceback", "gc", "copy",
     "operator", "string", "textwrap", "struct", "codecs"}

\* Lines 204-216
mapping ==
    [cv2 |-> "opencv-python", sklearn |-> "scikit-learn", PIL |-> "Pillow",
     yaml |-> "PyYAML", dotenv |-> "python-dotenv",
     google |-> "google-generativeai", gtts |-> "gTTS",
     requests |-> "requests", bs4 |-> "beautifulsoup4", flask |-> "Flask",
     werkzeug |-> "werkzeug"]

\* The characters of module and package names in the order of their code
\* points, which is the order sorted() compares strings by.
CodePoints == "-0123456789" \o UpperLetters \o "_" \o LowerLetters

RECURSIVE str_lt(_, _)
\* a < b for Python strings
str_lt(a, b) ==
    IF b = "" THEN FALSE
    ELSE IF a = "" THEN TRUE
    ELSE IF Char(a, 1) = Char(b, 1) THEN str_lt(Tail(a), Tail(b))
    ELSE IndexIn(CodePoints, Char(a, 1), 1) < IndexIn(CodePoints, Char(b, 1), 1)

RECURSIVE sorted(_)
\* sorted(list(set(detected))), line 223
sorted(detected) ==
    IF detected = {} THEN <<>>
    ELSE <<CHOOSE x \in detected : \A y \in detected \ {x} : str_lt(x, y)>>
         \o sorted(detected \ {CHOOSE x \in detected :
                                  \A y \in detected \ {x} : str_lt(x, y)})

\* Lines 218-223 for the modules found by the walk
detected_packages(dependencies) ==
    PyList([i \in 1..Cardinality(dependencies \ stdlib) |->
        PyStr(sorted({IF dep \in DOMAIN mapping THEN mapping[dep] ELSE dep :
                         dep \in dependencies \ stdlib})[i])])

\* An exception of class exc leaves the operation instead of a value.
Raised(exc) == [t |-> "raise", v |-> exc]

\* Lines 225-226: except SyntaxError: return []; an exception of another
\* class leaves detect_dependencies.
detect_except(exc) ==
    IF exc = "SyntaxError" THEN PyList(<<>>) ELSE Raised(exc)

\* Lines 167-226 for the sanitized text (line 178)
dependencies_of(sanitized) ==
    IF ast_parse(sanitized) = "ok"
    THEN detected_packages(imported_modules(sanitized))
    ELSE detect_except(ast_parse(sanitized))

detect_dependencies(code) == dependencies_of(sanitize_code(code))

-----------------------------------------------------------------------------
(* QuizSystem: extraction, fallback parser, normalizer, enrichment         *)

\* s.rfind(c) for a one-character string c, searching down from i; 0 if absent.
LastIndexIn(s, c, i) ==
    IF \E k \in 1..i : Char(s, k) = c
    THEN CHOOSE k \in 1..i :
             /\ Char(s, k) = c
             /\ \A j \in (k + 1)..i : Char(s, j) # c
    ELSE 0

RECURSIVE SplitLinesFrom(_, _)
SplitLinesFrom(s, start) ==
    LET k == IndexOfAny(s, {"\n", "\r", "\f"}, start)
        next == IF Slice(s, k, k + 1) = "\r\n" THEN k + 2 ELSE k + 1
    IN  IF k = 0
        THEN IF start > Len(s) THEN <<>> ELSE <<SubSeq(s, start, Len(s))>>
        ELSE <<SubSeq(s, start, k - 1)>> \o SplitLinesFrom(s, next)

\* s.splitlines(): no empty last line after a final line break.
splitlines(s) == SplitLinesFrom(s, 1)

\* Lines 59-63: the text from the first opening to the last closing brace.
LocateObject(cleaned) ==
    IF \/ IndexIn(cleaned, "{", 1) = 0
       \/ LastIndexIn(cleaned, "}", Len(cleaned)) = 0
       \/ LastIndexIn(cleaned, "}", Len(cleaned)) <= IndexIn(cleaned, "{", 1)
    THEN PyNone
    ELSE PyStr(SubSeq(cleaned, IndexIn(cleaned, "{", 1),
                      LastIndexIn(cleaned, "}", Len(cleaned))))

\* Lines 54-55: a last line that is a fence is dropped.
DropClosingFence(lines) ==
    IF Len(lines) > 0 /\ startswith(strip(lines[Len(lines)]), Fence)
    THEN SubSeq(lines, 1, Len(lines) - 1)
    ELSE lines

\* Lines 48-56: the first line is dropped (lines 50-53), then a closing fence.
Unfence(stripped) ==
    IF startswith(stripped, Fence)
    THEN strip(join("\n", DropClosingFence(
                   IF Len(splitlines(stripped)) > 0
                   THEN Tail(splitlines(stripped)) ELSE <<>>)))
    ELSE stripped

\* Lines 40-63. The result is None or the candidate string.
extract_json_from_text(text) ==
    IF ~truthy(text) THEN PyNone
    ELSE LocateObject(Unfence(strip(text.v)))

\* Line 260: questions[:5]
FallbackCap == 5

\* Line 260 without the slice
FirstN_All(seq, n) == seq

\* seq[:n]
FirstN(seq, n) == SubSeq(seq, 1, IF Len(seq) < n THEN Len(seq) ELSE n)

\* The text after the first occurrence of c: s.split(c, 1)[1]
AfterFirst(s, c) == SubSeq(s, IndexIn(s, c, 1) + 1, Len(s))

\* Lines 236-241
NewQuestion(line) ==
    PyDict(<<
        <<"question", PyStr(IF contains(line, ".")
                            THEN strip(AfterFirst(line, "."))
                            ELSE line)>>,
        <<"options", PyList(<<>>)>>,
        <<"correct", PyStr("A")>>,
        <<"explanation", PyStr("Generated explanation")>> >>)

\* Line 227: line[:2].isdigit() and line[1] in ['.', ')'] indexes line[1]
\* whenever the first test holds, and a one-character line has no line[1].
NumberedTestRaises(line) == isdigit(Slice(line, 1, 2)) /\ Len(line) < 2

\* Lines 226-233
IsQuestionStart(line) ==
    /\ \/ (isdigit(Slice(line, 1, 2)) /\ Char(line, 2) \in {".", ")"})
       \/ startswith_any(lower(line), <<"q1", "q2", "q3", "q4", "q5">>)
    /\ contains(line, "?")

RECURSIVE ParseQuizLines(_, _, _, _)
\* Lines 222-255. current is None or the question being filled.
ParseQuizLines(lines, i, questions, current) ==
    IF i > Len(lines)
    THEN [exc |-> "",
          val |-> IF truthy(current) THEN Append(questions, current)
                  ELSE questions]
    ELSE
      LET line == strip(lines[i])
          have == truthy(current)
      IN  IF NumberedTestRaises(line) THEN [exc |-> "IndexError", val |-> <<>>]
          ELSE IF IsQuestionStart(line)
          THEN ParseQuizLines(lines, i + 1,
                   IF have THEN Append(questions, current) ELSE questions,
                   NewQuestion(line))
          ELSE IF have /\ startswith_any(line, <<"A)", "B)", "C)", "D)">>)
          THEN ParseQuizLines(lines, i + 1, questions,
                   dict_set(current, "options",
                       PyList(Append(dict_get(current, "options", PyNone).v,
                                     PyStr(line)))))
          ELSE IF have /\ startswith(lower(line), "correct")
          THEN ParseQuizLines(lines, i + 1, questions,
                   IF contains(line, ":")
                   THEN dict_set(current, "correct",
                                 PyStr(strip(AfterFirst(line, ":"))))
                   ELSE current)
          ELSE IF have /\ startswith(lower(line), "explanation")
          THEN ParseQuizLines(lines, i + 1, questions,
                   IF contains(line, ":")
                   THEN dict_set(current, "explanation",
                                 PyStr(strip(AfterFirst(line, ":"))))
                   ELSE current)
          ELSE ParseQuizLines(lines, i + 1, questions, current)

\* Lines 254-261 for the outcome r of the loop
ParsedQuiz(r, topic, difficulty) ==
    IF r.exc # "" THEN [exc |-> r.exc, val |-> PyNone]
    ELSE [exc |-> "",
          val |-> PyDict(<<
              <<"topic", PyStr(topic)>>,
              <<"difficulty", PyStr(difficulty)>>,
              <<"questions", PyList(FirstN(r.val, FallbackCap))>> >>)]

\* Lines 215-261: exc names the exception that escapes, "" if none.
parse_quiz_response(response, topic, difficulty) ==
    ParsedQuiz(ParseQuizLines(split(response, "\n"), 1, <<>>, PyNone),
               topic, difficulty)

\* Line 78
letter_to_index(c) ==
    CASE c = "A" -> 0 [] c = "B" -> 1 [] c = "C" -> 2 [] c = "D" -> 3
      [] OTHER -> -1

RECURSIVE CleanOptions(_, _)
\* Line 88: [str(o).strip() for o in options if str(o).strip()]
CleanOptions(options, i) ==
    IF i > Len(options) THEN <<>>
    ELSE LET o == strip(py_str(options[i]))
         IN  IF o # "" THEN <<PyStr(o)>> \o CleanOptions(options, i + 1)
             ELSE CleanOptions(options, i + 1)

\* Lines 98-99 without the first-character lookup of lines 100-102
LetterIndex_WholeOnly(correct_clean) ==
    IF letter_to_index(correct_clean) >= 0
    THEN letter_to_index(correct_clean)
    ELSE 0

\* Lines 98-102 for the stripped upper-case text of correct
LetterIndex(correct_clean) ==
    IF letter_to_index(correct_clean) >= 0
    THEN letter_to_index(correct_clean)
    ELSE IF letter_to_index(Slice(correct_clean, 1, 1)) >= 0
         THEN letter_to_index(Slice(correct_clean, 1, 1))
         ELSE 0

\* Lines 103-106: int(correct), 0 when it raises
IntOrZero(conv) == IF conv.ok THEN conv.v ELSE 0

\* Lines 107-108 left out
ClampCorrect_Off(correct_int) == correct_int

\* Lines 107-108
ClampCorrect(correct_int) ==
    IF correct_int < 0 \/ correct_int > 3 THEN 0 ELSE correct_int

\* Lines 95-108
CoerceCorrect(correct) ==
    ClampCorrect(IntOrZero(py_int(
        IF isinstance(correct, "str")
        THEN PyInt(LetterIndex(upper(strip(correct.v))))
        ELSE correct)))

\* Lines 110-115
NormalizedQuestion(q_text, options, correct_int, explanation) ==
    PyDict(<<
        <<"question", PyStr(q_text)>>,
        <<"options", PyList(FirstN(options, 4))>>,
        <<"correct", PyInt(correct_int)>>,
        <<"explanation", PyStr(IF explanation # "" THEN explanation
                               ELSE "Generated explanation")>> >>)

\* Lines 93-115 without the test of lines 91-92
QuestionWithOptions_KeepShort(q, options) ==
    NormalizedQuestion(
        strip(py_str(dict_get(q, "question", PyStr("")))),
        options,
        CoerceCorrect(dict_get(q, "correct", PyInt(0))),
        strip(py_str(dict_get(q, "explanation", PyStr("")))))

\* Lines 91-115 for the cleaned options: None when the question is skipped
\* (line 92).
QuestionWithOptions(q, options) ==
    IF Len(options) < 4 THEN PyNone
    ELSE NormalizedQuestion(
             strip(py_str(dict_get(q, "question", PyStr("")))),
             options,
             CoerceCorrect(dict_get(q, "correct", PyInt(0))),
             strip(py_str(dict_get(q, "explanation", PyStr("")))))

\* Lines 84-115 for one dict q: the normalized question, or None when the
\* question is skipped.
NormalizeQuestion(q) ==
    QuestionWithOptions(q,
        CleanOptions(IF isinstance(dict_get(q, "options", PyList(<<>>)), "list")
                     THEN dict_get(q, "options", PyList(<<>>)).v
                     ELSE <<>>, 1))

RECURSIVE NormalizeQuestions(_, _)

\* Line 110: a question that is not skipped is appended.
AppendNormalized(questions, i, n) ==
    IF n = PyNone THEN NormalizeQuestions(questions, i + 1)
    ELSE <<n>> \o NormalizeQuestions(questions, i + 1)

\* Lines 80-115
NormalizeQuestions(questions, i) ==
    IF i > Len(questions) THEN <<>>
    ELSE IF ~isinstance(questions[i], "dict")
    THEN NormalizeQuestions(questions, i + 1)
    ELSE AppendNormalized(questions, i, NormalizeQuestion(questions[i]))

\* Lines 73-117 for the dict with its defaults set
NormalizeWithDefaults(d) ==
    dict_set(d, "questions",
             PyList(NormalizeQuestions(
                        IF isinstance(dict_get(d, "questions", PyNone), "list")
                        THEN dict_get(d, "questions", PyNone).v
                        ELSE <<>>, 1)))

\* Lines 65-118
normalize_quiz_data(quiz_data, topic, difficulty) ==
    NormalizeWithDefaults(
        setdefault(setdefault(IF isinstance(quiz_data, "dict") THEN quiz_data
                              ELSE PyDict(<<>>),
                              "topic", PyStr(topic)),
                   "difficulty", PyStr(difficulty)))

\* Lines 179-195: the synthetic question of the hard fallback
FallbackQuiz(topic, difficulty) ==
    PyDict(<<
        <<"topic", PyStr(topic)>>,
        <<"difficulty", PyStr(difficulty)>>,
        <<"questions", PyList(<<PyDict(<<
            <<"question", PyStr("Which statement best describes " \o topic \o "?")>>,
            <<"options", PyList(<<
                PyStr("It is a supervised learning concept"),
                PyStr("It is an unsupervised learning concept"),
                PyStr("It is only used for data visualization"),
                PyStr("It is unrelated to machine learning")>>)>>,
            <<"correct", PyInt(0)>>,
            <<"explanation", PyStr(topic \o " is commonly taught as part of supervised/ML fundamentals depending on context.")>> >>)>>)>> >>)

\* What a collaborator call of hf_manager gives: the hf.fail_at-th call of an
\* enrichment raises (0: none does); hf.scored tells whether the replies
\* carry a "score" or the defaults of lines 271 and 280 are taken.
HfModes == [fail_at : 0..4, scored : BOOLEAN]

RECURSIVE EnhanceQuestions(_, _, _, _)
\* Lines 266-280: the question dicts are changed in place, so what was done
\* before a call raises stays done.
EnhanceQuestions(questions, i, calls, hf) ==
    IF i > Len(questions) THEN questions
    ELSE
      LET q == questions[i]
          question_text == dict_get(q, "question", PyStr(""))
          ask1 == truthy(question_text)
          calls1 == IF ask1 THEN calls + 1 ELSE calls
          q1 == IF ask1
                THEN dict_set(q, "sentiment_score",
                              PyFloat(IF hf.scored THEN "0.9" ELSE "0.5"))
                ELSE q
          ask2 == Len(dict_get(q, "options", PyList(<<>>)).v) >= 2
          calls2 == IF ask2 THEN calls1 + 1 ELSE calls1
          q2 == IF ask2
                THEN dict_set(q1, "qa_confidence",
                              PyFloat(IF hf.scored THEN "0.8" ELSE "0.0"))
                ELSE q1
      IN  IF ask1 /\ calls1 = hf.fail_at THEN questions
          ELSE IF ask2 /\ calls2 = hf.fail_at
          THEN [questions EXCEPT ![i] = q1]
          ELSE EnhanceQuestions([questions EXCEPT ![i] = q2], i + 1, calls2, hf)

\* The fields the enrichment adds (lines 271 and 280)
ScoreFields == {"sentiment_score", "qa_confidence"}

\* Lines 263-286 if a question whose enrichment failed part-way were dropped
enhance_quiz_with_hf_DropFailed(quiz_data, hf) ==
    dict_set(quiz_data, "questions",
             PyList(SelectSeq(EnhanceQuestions(
                        dict_get(quiz_data, "questions", PyList(<<>>)).v,
                        1, 0, hf),
                    LAMBDA q : \A f \in ScoreFields : has_key(q, f))))

\* Lines 263-286: an exception of a collaborator ends the loop and is dropped.
enhance_quiz_with_hf(quiz_data, hf) ==
    dict_set(quiz_data, "questions",
             PyList(EnhanceQuestions(
                        dict_get(quiz_data, "questions", PyList(<<>>)).v,
                        1, 0, hf)))

\* Line 198 without the hard fallback of lines 177-195
EnrichedQuiz_NoFallback(normalized, topic, difficulty, hf) ==
    [exc |-> "", quiz |-> enhance_quiz_with_hf(normalized, hf)]

\* Lines 177-195: the quiz handed to the enrichment
QuizToEnrich(normalized, topic, difficulty) ==
    IF ~truthy(dict_get(normalized, "questions", PyNone))
    THEN normalize_quiz_data(FallbackQuiz(topic, difficulty), topic, difficulty)
    ELSE normalized

\* Lines 177-198 for the normalized quiz
EnrichedQuiz(normalized, topic, difficulty, hf) ==
    [exc |-> "",
     quiz |-> enhance_quiz_with_hf(
                  QuizToEnrich(normalized, topic, difficulty), hf)]

\* Lines 172-198 for what the fallback parser gave
FromParser(parsed, topic, difficulty, hf) ==
    IF parsed.exc # "" THEN [exc |-> parsed.exc, quiz |-> PyNone]
    ELSE EnrichedQuiz(normalize_quiz_data(parsed.val, topic, difficulty),
                      topic, difficulty, hf)

\* Lines 172-198 for what json.loads gave (None when it raised)
FromJson(quiz_data, response, topic, difficulty, hf) ==
    IF truthy(quiz_data)
    THEN EnrichedQuiz(normalize_quiz_data(quiz_data, topic, difficulty),
                      topic, difficulty, hf)
    ELSE FromParser(IF isinstance(response, "str")
                    THEN parse_quiz_response(response.v, topic, difficulty)
                    ELSE [exc |-> "AttributeError", val |-> PyNone],
                    topic, difficulty, hf)

\* Lines 167-170
LoadsOrNone(loaded) == IF loaded.ok THEN loaded.val ELSE PyNone

\* Lines 166-170
LoadExtracted(extracted) ==
    IF truthy(extracted) THEN LoadsOrNone(json_loads(extracted.v)) ELSE PyNone

\* Lines 163-198 of generate_realtime_quiz, from the response of the model to
\* the quiz handed to _store_generated_quiz. exc names the exception raised
\* inside the try block, "" if none.
QuizPipeline(response, topic, difficulty, hf) ==
    FromJson(LoadExtracted(extract_json_from_text(response)),
             response, topic, difficulty, hf)

-----------------------------------------------------------------------------
(* The quiz store: QuizSystem.quizzes, the objects it refers to, the file  *)

\* self.quizzes.get(key): the reference stored under key, 0 for None.
QGet(qz, key) ==
    LET i == KeyIndex(qz, key, 1) IN IF i = 0 THEN 0 ELSE qz[i][2]

QKeys(qz) == {qz[i][1] : i \in 1..Len(qz)}

\* self.quizzes as the value json.dump walks: every key with its object.
QuizzesValue(qz, h) == PyDict([i \in 1..Len(qz) |-> <<qz[i][1], h[qz[i][2]]>>])

\* Lines 504-521
default_quizzes ==
    PyDict(<< <<"linear_regression", PyDict(<<
        <<"topic", PyStr("Linear Regression")>>,
        <<"questions", PyList(<<PyDict(<<
            <<"question", PyStr("What is the main goal of linear regression?")>>,
            <<"options", PyList(<<
                PyStr("To classify data into categories"),
                PyStr("To predict a continuous output variable"),
                PyStr("To find clusters in data"),
                PyStr("To reduce dimensionality")>>)>>,
            <<"correct", PyInt(1)>>,
            <<"explanation", PyStr("Linear regression is used to predict continuous numerical values based on input features.")>> >>)>>)>> >>)>> >>)

\* Lines 525-532: the mapping read from the file, {} when reading fails.
LoadedOrEmpty(r) == IF r.ok THEN r.val ELSE PyDict(<<>>)

load_quizzes(text) == LoadedOrEmpty(json_loads(text))

\* How many generation requests the threads of the store specification serve.
MaxPending == 2

\* The k-th token uuid.uuid4().hex hands out.
Hex(k) == NatToStr(k) \o "f"

\* Line 24 with a generator that can hand out its first token again
uuid4_hex_repeating(used) == {Hex(1), Hex(Cardinality(used) + 1)}

\* Line 24: uuid.uuid4().hex returns a token no earlier call has returned.
uuid4_hex(used) == {Hex(Cardinality(used) + 1)}

\* Line 24
MakeQuizId(hex) == "gen_" \o hex

\* Lines 25-27 with line 26 taken for a dict as well: the quiz is emptied.
SetQuizId_Clearing(h, ref, quiz_id) ==
    [h EXCEPT ![ref] = PyDict(<< <<"quiz_id", PyStr(quiz_id)>> >>)]

\* Lines 25-27: the dict the caller passed gets the key "quiz_id".
SetQuizId(h, ref, quiz_id) ==
    [h EXCEPT ![ref] = dict_set(@, "quiz_id", PyStr(quiz_id))]

\* Line 28 left out
InsertQuiz_Dropped(qz, quiz_id, ref) == qz

\* Line 28
InsertQuiz(qz, quiz_id, ref) ==
    IF KeyIndex(qz, quiz_id, 1) = 0 THEN Append(qz, <<quiz_id, ref>>)
    ELSE [qz EXCEPT ![KeyIndex(qz, quiz_id, 1)] = <<quiz_id, ref>>]

\* What a file holds after text is written at offset 0 over its content.
Overlay(old, text) == text \o SubSeq(old, Len(text) + 1, Len(old))

\* s.replace(old, new) for a one-character string old
replace_char(s, old, new) ==
    Concat([i \in 1..Len(s) |-> IF Char(s, i) = old THEN new ELSE Char(s, i)],
           1, Len(s))

\* Line 537
NormalizeTopic(topic) == replace_char(lower(topic), " ", "_")

-----------------------------------------------------------------------------
(* generate_realtime_quiz and _store_generated_quiz, one step per line,    *)
(* run by the request threads of the threaded server on the one QuizSystem *)

\* Line 120: difficulty: str = "Intermediate"
DefaultDifficulty == "Intermediate"

\* str(e) of the exceptions the pipeline can raise
ExcMessage(exc) ==
    CASE exc = "IndexError" -> "string index out of range"
      [] exc = "AttributeError" -> "'NoneType' object has no attribute 'split'"
      [] exc = "OSError" -> "No space left on device"
      [] OTHER -> "Connection error."

\* What a caller holds when an operation is over. raised: an exception left
\* the operation instead of a value; quiz: the object returned; seen: the
\* content a lookup read from the object it found.
MakeResult(op, success, raised, quiz_id, quiz, seen, error) ==
    [op |-> op, success |-> success, raised |-> raised, quiz_id |-> quiz_id,
     quiz |-> quiz, seen |-> seen, error |-> error, response |-> PyNone,
     replied |-> FALSE]

\* Lines 209-213 with the exception propagating to the caller instead
generate_except_reraise(exc) ==
    MakeResult("generate", FALSE, TRUE, "", 0, PyNone, ExcMessage(exc))

\* Lines 209-213: except Exception as e: return {"success": False, ...}
generate_except(exc) ==
    MakeResult("generate", FALSE, FALSE, "", 0, PyNone,
               "Failed to generate quiz: " \o ExcMessage(exc))

\* Lines 35-36 with the exception of the disk write leaving the store
store_except_raise == "raise"

\* Lines 35-36: except Exception: pass
store_except == "pass"

\* Lines 22-38 with lines 27 and 28 exchanged
StoreLines_InsertFirst ==
    <<"L24", "L28", "L27", "L32", "L33", "L34", "L34_exit", "L38">>

\* Lines 22-38: the statements of _store_generated_quiz in program order
StoreLines ==
    <<"L24", "L27", "L28", "L32", "L33", "L34", "L34_exit", "L38">>

\* The statement a thread reaches when the statement `line` is done.
After(line) ==
    StoreLines[1 + CHOOSE k \in 1..(Len(StoreLines) - 1) : StoreLines[k] = line]

\* The locals of a thread that runs no operation yet.
IdleLoc ==
    [response |-> PyNone, topic |-> "", ref |-> 0,
     quiz_id |-> "", arg_before |-> PyNone, disk_failed |-> FALSE,
     buffer |-> "", result |-> MakeResult("none", FALSE, FALSE, "", 0, PyNone, "")]

\* The identifiers a submission is made with: the generated ones and one
\* that is never stored.
LookupIds == {MakeQuizId(Hex(k)) : k \in 1..MaxPending} \cup {"nonexistent-id"}

Topics == {"Linear Regression", "kNN"}

\* Lines 124-161: get_groq() or the completion call raises.
GenerateApiError(t) ==
    /\ pc[t] = "idle"
    /\ pending # <<>>
    /\ pending' = Tail(pending)
    /\ loc' = [loc EXCEPT ![t] =
                  [IdleLoc EXCEPT !.result = generate_except("APIError")]]
    /\ UNCHANGED <<quizzes, heap, quiz_file, issued, callers, pc>>
    /\ UNCHANGED <<san_vars, progress_vars>>

\* Lines 198-200 and 209-213: the store is called with the quiz, or the
\* exception raised inside the try block ends the operation.
StartStore(t, req, out) ==
    IF out.exc # ""
    THEN /\ loc' = [loc EXCEPT ![t] =
                       [IdleLoc EXCEPT !.result =
                           [generate_except(out.exc) EXCEPT
                               !.response = req.content,
                               !.replied = TRUE]]]
         /\ UNCHANGED <<heap, pc>>
    ELSE /\ heap' = Append(heap, out.quiz)
         /\ loc' = [loc EXCEPT ![t] =
                       [IdleLoc EXCEPT !.response = req.content,
                                       !.topic = req.topic,
                                       !.ref = Len(heap) + 1,
                                       !.arg_before = out.quiz]]
         /\ pc' = [pc EXCEPT ![t] = StoreLines[1]]

\* Lines 161-200: the model replied; the quiz is built and the store called,
\* or an exception inside the try block ends the operation.
Generate(t) ==
    /\ pc[t] = "idle"
    /\ pending # <<>>
    /\ pending' = Tail(pending)
    /\ StartStore(t, Head(pending),
                  QuizPipeline(Head(pending).content, Head(pending).topic,
                               DefaultDifficulty, Head(pending).hf))
    /\ UNCHANGED <<quizzes, quiz_file, issued, callers>>
    /\ UNCHANGED <<san_vars, progress_vars>>

\* Line 24
StoreMakeId(t) ==
    /\ pc[t] = "L24"
    /\ \E hex \in uuid4_hex(issued) :
          /\ issued' = issued \cup {hex}
          /\ loc' = [loc EXCEPT ![t].quiz_id = MakeQuizId(hex)]
    /\ pc' = [pc EXCEPT ![t] = After("L24")]
    /\ UNCHANGED <<quizzes, heap, quiz_file, pending, callers>>
    /\ UNCHANGED <<san_vars, progress_vars>>

\* Lines 25-27 (the pipeline always passes a dict)
StoreSetId(t) ==
    /\ pc[t] = "L27"
    /\ heap' = SetQuizId(heap, loc[t].ref, loc[t].quiz_id)
    /\ pc' = [pc EXCEPT ![t] = After("L27")]
    /\ UNCHANGED <<quizzes, quiz_file, issued, pending, callers, loc>>
    /\ UNCHANGED <<san_vars, progress_vars>>

\* Line 28
StoreInsert(t) ==
    /\ pc[t] = "L28"
    /\ quizzes' = InsertQuiz(quizzes, loc[t].quiz_id, loc[t].ref)
    /\ pc' = [pc EXCEPT ![t] = After("L28")]
    /\ UNCHANGED <<heap, quiz_file, issued, pending, callers, loc>>
    /\ UNCHANGED <<san_vars, progress_vars>>

\* Line 32: the directory exists since the constructor made it.
StoreMakedirs(t) ==
    /\ pc[t] = "L32"
    /\ pc' = [pc EXCEPT ![t] = After("L32")]
    /\ UNCHANGED <<quizzes, heap, quiz_file, issued, pending, callers, loc>>
    /\ UNCHANGED <<san_vars, progress_vars>>

\* Line 33: open(..., 'w') truncates the file.
StoreOpen(t) ==
    /\ pc[t] = "L33"
    /\ quiz_file' = ""
    /\ pc' = [pc EXCEPT ![t] = After("L33")]
    /\ UNCHANGED <<quizzes, heap, issued, pending, callers, loc>>
    /\ UNCHANGED <<san_vars, progress_vars>>

\* Line 34: json.dump writes the mapping into the buffer of the file object.
StoreDump(t) ==
    /\ pc[t] = "L34"
    /\ loc' = [loc EXCEPT ![t].buffer = json_dumps(QuizzesValue(quizzes, heap), 0)]
    /\ pc' = [pc EXCEPT ![t] = After("L34")]
    /\ UNCHANGED <<quizzes, heap, quiz_file, issued, pending, callers>>
    /\ UNCHANGED <<san_vars, progress_vars>>

\* End of the with block: the buffer is written at offset 0 and the file closed.
StoreClose(t) ==
    /\ pc[t] = "L34_exit"
    /\ quiz_file' = Overlay(quiz_file, loc[t].buffer)
    /\ pc' = [pc EXCEPT ![t] = After("L34_exit")]
    /\ UNCHANGED <<quizzes, heap, issued, pending, callers, loc>>
    /\ UNCHANGED <<san_vars, progress_vars>>

\* Where an exception of lines 32-34 takes the thread: on to line 38, or,
\* were it not caught, into the handler of generate_realtime_quiz.
AfterDiskFailure(t) ==
    IF store_except = "pass"
    THEN /\ loc' = [loc EXCEPT ![t].disk_failed = TRUE]
         /\ pc' = [pc EXCEPT ![t] = "L38"]
    ELSE /\ loc' = [loc EXCEPT ![t].disk_failed = TRUE,
                               ![t].result =
                                   [generate_except("OSError") EXCEPT
                                       !.response = loc[t].response,
                                       !.replied = TRUE]]
         /\ pc' = [pc EXCEPT ![t] = "idle"]

\* Lines 32-33: os.makedirs or open raises.
DiskFail(t) ==
    /\ pc[t] \in {"L32", "L33"}
    /\ AfterDiskFailure(t)
    /\ UNCHANGED <<quizzes, heap, quiz_file, issued, pending, callers>>
    /\ UNCHANGED <<san_vars, progress_vars>>

\* Line 34: json.dump raises part way; leaving the with block writes what
\* the buffer holds.
DumpFail(t) ==
    /\ pc[t] = "L34"
    /\ quiz_file' = Overlay(quiz_file,
                        SubSeq(json_dumps(QuizzesValue(quizzes, heap), 0), 1,
                               Len(json_dumps(QuizzesValue(quizzes, heap), 0)) \div 2))
    /\ AfterDiskFailure(t)
    /\ UNCHANGED <<quizzes, heap, issued, pending, callers>>
    /\ UNCHANGED <<san_vars, progress_vars>>

\* Lines 38 and 202-207
StoreReturn(t) ==
    /\ pc[t] = "L38"
    /\ loc' = [loc EXCEPT ![t] =
                  [IdleLoc EXCEPT !.disk_failed = loc[t].disk_failed, !.result =
                      [MakeResult("generate", TRUE, FALSE, loc[t].quiz_id,
                                  loc[t].ref, PyNone, "") EXCEPT
                          !.response = loc[t].response,
                          !.replied = TRUE]]]
    /\ pc' = [pc EXCEPT ![t] = "idle"]
    /\ UNCHANGED <<quizzes, heap, quiz_file, issued, pending, callers>>
    /\ UNCHANGED <<san_vars, progress_vars>>

\* submit_quiz, lines 1261-1263: the lookup and the 404 answer.
SubmitLookup(t, quiz_id) ==
    /\ pc[t] = "idle"
    /\ LET ref == QGet(quizzes, quiz_id)
       IN  IF ref = 0 \/ ~truthy(heap[ref])
           THEN /\ loc' = [loc EXCEPT ![t] =
                              [IdleLoc EXCEPT !.result =
                                  MakeResult("submit", FALSE, FALSE, quiz_id,
                                             0, PyNone, "Quiz not found")]]
                /\ UNCHANGED pc
           ELSE /\ loc' = [loc EXCEPT ![t] =
                              [IdleLoc EXCEPT !.ref = ref, !.quiz_id = quiz_id]]
                /\ pc' = [pc EXCEPT ![t] = "L1266"]
    /\ UNCHANGED <<quizzes, heap, quiz_file, issued, pending, callers>>
    /\ UNCHANGED <<san_vars, progress_vars>>

\* submit_quiz, lines 1266-1305: the fields of the quiz found are read.
SubmitScore(t) ==
    /\ pc[t] = "L1266"
    /\ loc' = [loc EXCEPT ![t] =
                  [IdleLoc EXCEPT !.result =
                      MakeResult("submit", TRUE, FALSE, loc[t].quiz_id,
                                 loc[t].ref, heap[loc[t].ref], "")]]
    /\ pc' = [pc EXCEPT ![t] = "idle"]
    /\ UNCHANGED <<quizzes, heap, quiz_file, issued, pending, callers>>
    /\ UNCHANGED <<san_vars, progress_vars>>

\* get_quiz, lines 534-538
GetQuiz(t, topic) ==
    /\ pc[t] = "idle"
    /\ LET key == NormalizeTopic(topic)
           ref == QGet(quizzes, key)
       IN  loc' = [loc EXCEPT ![t] =
                      [IdleLoc EXCEPT !.result =
                          MakeResult("get_quiz", ref # 0, FALSE, key, ref,
                                     IF ref = 0 THEN PyNone ELSE heap[ref], "")]]
    /\ UNCHANGED <<quizzes, heap, quiz_file, issued, pending, callers, pc>>
    /\ UNCHANGED <<san_vars, progress_vars>>

QuizNext ==
    \E t \in callers :
        \/ GenerateApiError(t)
        \/ Generate(t)
        \/ StoreMakeId(t)
        \/ StoreSetId(t)
        \/ StoreInsert(t)
        \/ StoreMakedirs(t)
        \/ StoreOpen(t)
        \/ StoreDump(t)
        \/ StoreClose(t)
        \/ DiskFail(t)
        \/ DumpFail(t)
        \/ StoreReturn(t)
        \/ \E quiz_id \in LookupIds : SubmitLookup(t, quiz_id)
        \/ SubmitScore(t)
        \/ \E topic \in Topics : GetQuiz(t, topic)

-----------------------------------------------------------------------------
(* Initial states and inputs                                               *)

\* Line 161: what message.content can be: JSON of the schema and off it,
\* fenced, wrapped in prose, malformed; plain text in the formats the
\* fallback parser reads and outside them; nothing at all.
Responses ==
    {
        PyStr("{\"questions\": [{\"question\": \"What is x?\", \"options\": [\"a\", \"b\", \"c\", \"d\"], \"correct\": 2, \"explanation\": \"E\"}]}"),
        PyStr("{\"questions\": [{\"question\": \"What is x?\", \"options\": [\"a\", \"b\", \"c\", \"d\"], \"correct\": \"B\", \"explanation\": \"E\"}]}"),
        PyStr("{\"questions\": [{\"question\": \"What is x?\", \"options\": [\"a\", \"b\", \"c\", \"d\"], \"correct\": \" c) \", \"explanation\": \"E\"}]}"),
        PyStr("{\"questions\": [{\"question\": \"What is x?\", \"options\": [\"a\", \"b\", \"c\", \"d\"], \"correct\": \"2\", \"explanation\": \"E\"}]}"),
        PyStr("{\"questions\": [{\"question\": \"What is x?\", \"options\": [\"a\", \"b\", \"c\", \"d\"], \"correct\": 7, \"explanation\": \"E\"}]}"),
        PyStr("{\"questions\": [{\"question\": \"What is x?\", \"options\": [\"a\", \"b\", \"c\", \"d\"], \"correct\": -1, \"explanation\": \"E\"}]}"),
        PyStr("{\"questions\": [{\"question\": \"What is x?\", \"options\": [\"a\", \"b\", \"c\", \"d\"], \"correct\": true, \"explanation\": \"E\"}]}"),
        PyStr("{\"questions\": [{\"question\": \"What is x?\", \"options\": [\"a\", \"b\", \"c\", \"d\"], \"correct\": null, \"explanation\": \"E\"}]}"),
        PyStr("{\"questions\": [{\"question\": \"What is x?\", \"options\": [\"a\", \"b\", \"c\", \"d\"], \"correct\": [1], \"explanation\": \"E\"}]}"),
        PyStr("{\"questions\": [{\"question\": \"What is x?\", \"options\": [\"a\", \"b\", \"c\"], \"correct\": 2, \"explanation\": \"E\"}]}"),
        PyStr("{\"questions\": [{\"question\": \"What is x?\", \"options\": [\"a\", \"b\", \"c\", \"d\", \"e\"], \"correct\": 2, \"explanation\": \"E\"}]}"),
        PyStr("{\"questions\": [{\"question\": \"What is x?\", \"options\": [\"a\", \" \", \"b\", \"c\", \"d\"], \"correct\": 2, \"explanation\": \"E\"}]}"),
        PyStr("{\"questions\": [{\"question\": \"What is x?\", \"options\": [\"a\", \" \", \"b\", \"c\"], \"correct\": 2, \"explanation\": \"E\"}]}"),
        PyStr("{\"questions\": [{\"question\": \"What is x?\", \"options\": \"abcd\", \"correct\": 2, \"explanation\": \"E\"}]}"),
        PyStr("{\"questions\": [{\"question\": \"What is x?\", \"options\": [1, 2, 3, 4], \"correct\": 2, \"explanation\": \"E\"}]}"),
        PyStr("{\"questions\": [{\"question\": \"What is x?\", \"options\": [\"a\", \"b\", \"c\", \"d\"], \"correct\": 2}]}"),
        PyStr("{\"questions\": [{\"question\": \"What is x?\", \"options\": [\"a\", \"b\", \"c\", \"d\"], \"correct\": 2, \"explanation\": \"  \"}]}"),
        PyStr("{\"questions\": [{\"question\": \"What is x?\", \"options\": [\"a\", \"b\", \"c\", \"d\"], \"correct\": 2, \"explanation\": null}]}"),
        PyStr("{\"questions\": [{\"question\": \"What is x?\", \"options\": [\"a\", \"b\", \"c\", \"d\"], \"explanation\": \"E\"}]}"),
        PyStr("{\"questions\": [{\"question\": \"\", \"options\": [\"a\", \"b\", \"c\", \"d\"], \"correct\": 2, \"explanation\": \"E\"}]}"),
        PyStr("{\"questions\": \"none\"}"),
        PyStr("{\"questions\": [1, {\"question\": \"What is x?\", \"options\": [\"a\", \"b\", \"c\", \"d\"], \"correct\": 2, \"explanation\": \"E\"}]}"),
        PyStr("{\"questions\": [{\"question\": \"What is x?\", \"options\": [\"a\", \"b\", \"c\", \"d\"], \"correct\": 0, \"explanation\": \"E\"}, {\"question\": \"Why?\", \"options\": [\"a\", \"b\", \"c\"], \"correct\": \"D\", \"explanation\": \"E\"}, {\"question\": \"How?\", \"options\": [\"a\", \"b\", \"c\", \"d\"], \"correct\": 3, \"explanation\": \"E\"}]}"),
        PyStr("{\"quiz_id\": \"mine\", \"topic\": \"T\", \"questions\": [{\"question\": \"What is x?\", \"options\": [\"a\", \"b\", \"c\", \"d\"], \"correct\": 2, \"explanation\": \"E\"}]}"),
        PyStr("Sure! {\"questions\": [{\"question\": \"What is x?\", \"options\": [\"a\", \"b\", \"c\", \"d\"], \"correct\": 2, \"explanation\": \"E\"}]} Hope this helps."),
        PyStr("{\"questions\": [}"),
        PyStr("{}"),
        PyStr(""),
        PyStr("garbage text"),
        PyStr("5"),
        PyStr("12"),
        PyStr("Here is a quiz\n7\nmore"),
        PyStr("Q1. What is x?\nA) a\nB) b\nC) c\nD) d\nCorrect: B\nExplanation: because"),
        PyStr("q1 What is x?\nA) a\nB) b\nC) c\nD) d\nCorrect Answer: 2"),
        PyStr("1. What is x?\nA) a\nB) b\nC) c\nD) d\nCorrect: B"),
        PyStr("Q1. What is x?\nA) a\nB) b\nCorrect: A"),
        PyStr("Q1. What is x?\nA) a\nB) b\nC) c\nD) d\n3"),
        PyStr("see } and { here"),
        PyStr(Fence \o "json\n" \o "{\"questions\": [{\"question\": \"What is x?\", \"options\": [\"a\", \"b\", \"c\", \"d\"], \"correct\": 2, \"explanation\": \"E\"}]}" \o "\n" \o Fence),
        PyNone
    }

\* The requests of the single-caller specification: every reply with an
\* enrichment that works, and the long replies with every behaviour of the
\* enrichment and every topic.
Requests ==
    {[topic |-> "kNN", content |-> r, hf |-> [fail_at |-> 0, scored |-> TRUE]] :
        r \in Responses}
    \cup [topic : Topics,
          content : {r \in Responses : isinstance(r, "str") /\ Len(r.v) > 120},
          hf : HfModes]

\* The objects and the mapping json.load builds from the mapping d.
LoadedHeap(d) == [i \in 1..Len(d.v) |-> d.v[i][2]]

LoadedQuizzes(d) == [i \in 1..Len(d.v) |-> <<d.v[i][1], i>>]

\* The progress tracker is not called.
NoProgressCalls ==
    /\ user_progress = PyDict(<<>>)
    /\ course_structure = PyNone
    /\ progress_out = [op |-> "none", raised |-> ""]
    /\ progress_ops = 0

\* The QuizSystem after __init__ (lines 17-20), with threads about to call it.
QuizInit(threads, queues, files) ==
    /\ quiz_file \in files
    /\ quizzes = LoadedQuizzes(load_quizzes(quiz_file))
    /\ heap = LoadedHeap(load_quizzes(quiz_file))
    /\ issued = {}
    /\ pending \in queues
    /\ callers = threads
    /\ pc = [t \in threads |-> "idle"]
    /\ loc = [t \in threads |-> IdleLoc]
    /\ code_in = ""
    /\ code_out = ""
    /\ code_out2 = ""
    /\ san_pc = "idle"
    /\ is_valid = PyNone
    /\ deps = PyNone
    /\ san_lines = <<>>
    /\ san_attempts = 0
    /\ san_text = ""
    /\ san_raw = <<>>
    /\ san_in_fence = FALSE
    /\ NoProgressCalls

\* The file the constructor finds or leaves: the default of ensure_quiz_file,
\* or an empty mapping kept from an earlier run.
InitQuiz ==
    QuizInit({1}, {<<r>> : r \in Requests},
             {json_dumps(default_quizzes, 0), "{}"})

SpecQuiz == InitQuiz /\ [][QuizNext]_vars

\* The requests of the concurrent specification: a reply that is a quiz
\* with a quiz_id of its own, enriched until the second call of hf fails.
StoreRequests ==
    {[topic |-> "Linear Regression",
      content |-> PyStr("{\"quiz_id\": \"mine\", \"questions\": [{\"question\": \"Q?\", \"options\": [\"a\", \"b\", \"c\", \"d\"], \"correct\": \"B\"}]}"),
      hf |-> [fail_at |-> 2, scored |-> FALSE]]}

\* Two request threads of the threaded server share the QuizSystem.
InitStore ==
    QuizInit({1, 2}, [1..MaxPending -> StoreRequests],
             {json_dumps(default_quizzes, 0)})

SpecStore == InitStore /\ [][QuizNext]_vars

\* A reply of the model that is a JSON object with one question, with the
\* given options and answer key.
QuizReply(options, correct) ==
    PyStr(json_dumps(PyDict(<<
        <<"questions", PyList(<<PyDict(<<
            <<"question", PyStr("What is x?")>>,
            <<"options", PyList(options)>>,
            <<"correct", correct>>,
            <<"explanation", PyStr("E")>> >>)>>)>> >>), 0))

\* A reply of the model that is prose for the fallback parser: one question
\* after the marker, four lettered options and the line that names the answer.
ProseReply(marker, answer_line) ==
    PyStr(marker \o " What is x?\nA) a\nB) b\nC) c\nD) d\n" \o answer_line)

\* The answer keys of the replies: a letter of either case with or without
\* punctuation after it, or the text of a number.
AnswerLetters == {"A", "B", "C", "D", "E", "a", "b", "c", "d", "e"}

AnswerSuffixes == {"", ")", "."}

NumericAnswers == {"0", "1", "2", "3"}

FourOptions == <<PyStr("a"), PyStr("b"), PyStr("c"), PyStr("d")>>

\* The option lists of the replies: three to six entries, some of them
\* blank or padded with spaces.
OptionLists ==
    {<<PyStr("a"), PyStr("b"), PyStr("c")>>,
     <<PyStr("a"), PyStr(" "), PyStr("b"), PyStr("c")>>,
     FourOptions,
     <<PyStr("a"), PyStr(" b "), PyStr("c"), PyStr("d")>>,
     <<PyStr("a"), PyStr("b"), PyStr("c"), PyStr("d"), PyStr("e")>>,
     <<PyStr("d"), PyStr("c"), PyStr("b"), PyStr("a"), PyStr("e"), PyStr("f")>>,
     <<PyStr("a"), PyStr(" "), PyStr("b"), PyStr("c"), PyStr("d")>>,
     <<PyStr("a"), PyStr(""), PyStr("b"), PyStr("c"), PyStr("d"), PyStr("e")>>,
     <<PyStr("a"), PyStr(" "), PyStr(""), PyStr("b"), PyStr("c")>>}

QuestionMarkers == {"1.", "2)", "Q1.", "q2"}

AnswerLines == {"Correct: C", "Correct: b)", "Correct Answer: 2", "correct: D"}

\* The markers of the questions of a long prose reply: the parser takes
\* Q1 to Q5 and every later number that begins with one of them.
QuestionNumbers == <<"Q1.", "Q2.", "Q3.", "Q4.", "Q5.", "Q10.", "Q11.">>

\* A prose reply with n questions, each with its four lettered options.
ManyQuestionsReply(n) ==
    PyStr(join("\n", [i \in 1..n |->
        QuestionNumbers[i] \o " What is x" \o NatToStr(i)
            \o "?\nA) a\nB) b\nC) c\nD) d"]))

\* The requests of the specification of the normalizer.
NormalizeRequests ==
    [topic : {"kNN"},
     content : {QuizReply(FourOptions, PyStr(l \o s)) :
                    l \in AnswerLetters, s \in AnswerSuffixes}
               \cup {QuizReply(FourOptions, PyStr(n)) : n \in NumericAnswers}
               \cup {QuizReply(o, PyInt(2)) : o \in OptionLists}
               \cup {ProseReply(m, a) : m \in QuestionMarkers, a \in AnswerLines}
               \cup {ManyQuestionsReply(n) : n \in 4..Len(QuestionNumbers)},
     hf : {[fail_at |-> 0, scored |-> TRUE]}]

InitNormalize ==
    QuizInit({1}, {<<r>> : r \in NormalizeRequests},
             {json_dumps(default_quizzes, 0)})

SpecNormalize == InitNormalize /\ [][QuizNext]_vars

\* A QuizSystem nobody calls, for the specifications of the sanitizer.
NoQuizCalls ==
    /\ quizzes = <<>>
    /\ heap = <<>>
    /\ quiz_file = "{}"
    /\ issued = {}
    /\ pending = <<>>
    /\ callers = {}
    /\ pc = <<>>
    /\ loc = <<>>

SanInit ==
    /\ code_in \in CodeInputs
    /\ code_out = ""
    /\ code_out2 = ""
    /\ san_pc = "start"
    /\ is_valid = PyNone
    /\ deps = PyNone
    /\ san_lines = <<>>
    /\ san_attempts = 0
    /\ san_text = ""
    /\ san_raw = <<>>
    /\ san_in_fence = FALSE
    /\ NoProgressCalls
    /\ NoQuizCalls

\* A caller (the code route, validate_syntax, ...) sanitizes the text of the model.
Sanitize ==
    /\ san_pc = "start"
    /\ code_out' = sanitize_code(code_in)
    /\ san_pc' = "once"
    /\ UNCHANGED <<code_in, code_out2, is_valid, deps, san_lines, san_attempts,
                   san_text, san_raw, san_in_fence>>
    /\ UNCHANGED <<quiz_vars, progress_vars>>

\* The sanitized text is sanitized again (save_code_file, line 130, after
\* its caller has already sanitized the text).
SanitizeAgain ==
    /\ san_pc = "once"
    /\ code_out2' = sanitize_code(code_out)
    /\ san_pc' = "twice"
    /\ UNCHANGED <<code_in, code_out, is_valid, deps, san_lines, san_attempts,
                   san_text, san_raw, san_in_fence>>
    /\ UNCHANGED <<quiz_vars, progress_vars>>

SanNext == Sanitize \/ SanitizeAgain

SpecSan == SanInit /\ [][SanNext]_vars

\* A reply of the model that is one fenced block: the opening fence with
\* its language tag, the lines of the body, the closing fence.
FencedBlock(body) == join("\n", <<Fence \o "python">> \o body \o <<Fence>>)

\* The bodies of the fenced blocks: one line at least, no fence line.
FencedBodies ==
    {ls \in LineSeqs(MaxLines - 1) :
        /\ Len(ls) >= 1
        /\ \A i \in 1..Len(ls) : ~startswith(strip(ls[i]), Fence)}

\* The reply of the first end-to-end scenario.
ScenarioA ==
    Fence \o "python\n# comment\nimport json\ndef f():\n    return 1\n"
    \o Fence \o "\nThis function returns 1."

\* The code route hands one reply of the model to sanitize_code,
\* validate_syntax and detect_dependencies.
CodeInit ==
    /\ code_in \in {FencedBlock(b) : b \in FencedBodies} \cup {ScenarioA}
    /\ code_out = ""
    /\ code_out2 = ""
    /\ san_pc = "start"
    /\ is_valid = PyNone
    /\ deps = PyNone
    /\ san_lines = <<>>
    /\ san_attempts = 0
    /\ san_text = ""
    /\ san_raw = <<>>
    /\ san_in_fence = FALSE
    /\ NoProgressCalls
    /\ NoQuizCalls

\* validate_syntax(code), lines 149-165
Validate ==
    /\ is_valid = PyNone
    /\ is_valid' = validate_syntax(code_in)
    /\ UNCHANGED <<code_in, code_out, code_out2, san_pc, deps, san_lines,
                   san_attempts,
                   san_text, san_raw, san_in_fence>>
    /\ UNCHANGED <<quiz_vars, progress_vars>>

\* detect_dependencies(code), lines 167-226
DetectDependencies ==
    /\ deps = PyNone
    /\ deps' = detect_dependencies(code_in)
    /\ UNCHANGED <<code_in, code_out, code_out2, san_pc, is_valid, san_lines,
                   san_attempts,
                   san_text, san_raw, san_in_fence>>
    /\ UNCHANGED <<quiz_vars, progress_vars>>

CodeNext == Sanitize \/ SanitizeAgain \/ Validate \/ DetectDependencies

SpecCode == CodeInit /\ [][CodeNext]_vars

\* Lines of generated code for validate_syntax and detect_dependencies:
\* imports of standard, mapped and unmapped modules, with a submodule path,
\* from-imports, an import behind a semicolon, a line that does not parse
\* and a line the parser cannot encode.
DepLines ==
    {"import os", "import numpy", "import cv2", "import yaml",
     "import numpy.linalg", "from sklearn.svm import SVC",
     "x = 1; import cv2", "print(1", "s = '" \o LoneSurrogate \o "'"}

RECURSIVE DepSeqs(_)
\* All sequences of at most n of these lines.
DepSeqs(n) ==
    IF n = 0 THEN {<<>>}
    ELSE DepSeqs(n - 1)
         \cup {Append(ls, l) : ls \in DepSeqs(n - 1), l \in DepLines}

DepsInit ==
    /\ code_in \in {join("\n", ls) : ls \in DepSeqs(MaxLines - 1)}
    /\ code_out = ""
    /\ code_out2 = ""
    /\ san_pc = "start"
    /\ is_valid = PyNone
    /\ deps = PyNone
    /\ san_lines = <<>>
    /\ san_attempts = 0
    /\ san_text = ""
    /\ san_raw = <<>>
    /\ san_in_fence = FALSE
    /\ NoProgressCalls
    /\ NoQuizCalls

SpecDeps == DepsInit /\ [][CodeNext]_vars

-----------------------------------------------------------------------------
(* sanitize_code run statement by statement, loop iteration by iteration   *)

\* Line 103 with a loop that has no cap
in_range_Unbounded(n) == TRUE

\* Line 103: for _ in range(200), with n iterations begun so far
in_range(n) == n < RecoveryCap

\* A reply whose first line never parses, with more lines after it than the
\* recovery loop has iterations.
LongInput ==
    join("\n", [i \in 1..(RecoveryCap + 2) |->
                   IF i = 1 THEN "Here is the solution:" ELSE "print(1)"])

\* The variables of the line-by-line run that an action leaves alone are
\* named in its UNCHANGED; the inputs and results of the other runs are not
\* touched by any of them.
other_runs == <<code_out2, is_valid, deps>>

\* Replies that hold a lone surrogate: alone, after code, before a line
\* that does not parse.
UnencodableInputs ==
    {"s = '" \o LoneSurrogate \o "'",
     "print(1)\ns = '" \o LoneSurrogate \o "'",
     "s = '" \o LoneSurrogate \o "'\nHere is the solution:"}

\* Lines 115-116 without the handler: the exception leaves sanitize_code
recovery_except_reraise == "raise"

\* Lines 115-116: except Exception: return candidate
recovery_except == "return"

\* The argument of sanitize_code is a text or None.
StepInit ==
    /\ code_in \in {PyStr(join("\n", ls)) : ls \in LineSeqs(MaxLines - 1)}
                   \cup {PyStr(LongInput)}
                   \cup {PyStr(text) : text \in UnencodableInputs}
                   \cup {PyNone}
    /\ code_out = ""
    /\ code_out2 = ""
    /\ san_pc = "begin"
    /\ is_valid = PyNone
    /\ deps = PyNone
    /\ san_lines = <<>>
    /\ san_attempts = 0
    /\ san_text = ""
    /\ san_raw = <<>>
    /\ san_in_fence = FALSE
    /\ NoProgressCalls
    /\ NoQuizCalls

\* Lines 23-25: "" is returned at once for None and for the empty text
StepBegin ==
    /\ san_pc = "begin"
    /\ IF ~truthy(code_in)
       THEN /\ san_pc' = "done"
            /\ code_out' = ""
            /\ UNCHANGED san_text
       ELSE /\ san_pc' = "split"
            /\ san_text' = replace_crlf(code_in.v)
            /\ UNCHANGED code_out
    /\ UNCHANGED <<code_in, san_lines, san_attempts, san_raw, san_in_fence>>
    /\ UNCHANGED other_runs
    /\ UNCHANGED <<quiz_vars, progress_vars>>

\* Lines 26-28
StepSplit ==
    /\ san_pc = "split"
    /\ san_raw' = split(san_text, "\n")
    /\ san_lines' = <<>>
    /\ san_in_fence' = FALSE
    /\ san_pc' = "fences"
    /\ UNCHANGED <<code_in, code_out, san_attempts, san_text>>
    /\ UNCHANGED other_runs
    /\ UNCHANGED <<quiz_vars, progress_vars>>

\* Lines 29-40: one iteration of the fence loop
StepFenceLine ==
    /\ san_pc = "fences"
    /\ Len(san_raw) > 0
    /\ san_raw' = Tail(san_raw)
    /\ IF startswith(strip(Head(san_raw)), Fence)
       THEN /\ san_in_fence' = ~san_in_fence
            /\ UNCHANGED san_lines
       ELSE /\ san_lines' = Append(san_lines, Head(san_raw))
            /\ UNCHANGED san_in_fence
    /\ UNCHANGED <<code_in, code_out, san_pc, san_attempts, san_text>>
    /\ UNCHANGED other_runs
    /\ UNCHANGED <<quiz_vars, progress_vars>>

\* Line 41
StepJoin ==
    /\ san_pc = "fences"
    /\ Len(san_raw) = 0
    /\ \E joined \in {join("\n", san_lines)} :
           san_text' = lstrip_chars(strip(joined), {BOM})
    /\ san_pc' = "cleaned"
    /\ UNCHANGED <<code_in, code_out, san_lines, san_attempts, san_raw,
                   san_in_fence>>
    /\ UNCHANGED other_runs
    /\ UNCHANGED <<quiz_vars, progress_vars>>

\* Line 44
StepCleaned ==
    /\ san_pc = "cleaned"
    /\ san_lines' = split(san_text, "\n")
    /\ san_pc' = "prelude"
    /\ UNCHANGED <<code_in, code_out, san_attempts, san_text, san_raw,
                   san_in_fence>>
    /\ UNCHANGED other_runs
    /\ UNCHANGED <<quiz_vars, progress_vars>>

\* Lines 45-58: an iteration of the prelude loop that pops the first line
StepPreludePop ==
    /\ san_pc = "prelude"
    /\ Len(san_lines) > 0
    /\ IsPreludeLine(san_lines[1])
    /\ san_lines' = Tail(san_lines)
    /\ UNCHANGED <<code_in, code_out, san_pc, san_attempts, san_text, san_raw,
                   san_in_fence>>
    /\ UNCHANGED other_runs
    /\ UNCHANGED <<quiz_vars, progress_vars>>

\* Lines 45 and 59-76: the prelude loop ends and the starter search cuts
StepPreludeEnd ==
    /\ san_pc = "prelude"
    /\ ~(Len(san_lines) > 0 /\ IsPreludeLine(san_lines[1]))
    /\ san_lines' = PreludeSeek(san_lines)
    /\ san_pc' = "postamble"
    /\ UNCHANGED <<code_in, code_out, san_attempts, san_text, san_raw,
                   san_in_fence>>
    /\ UNCHANGED other_runs
    /\ UNCHANGED <<quiz_vars, progress_vars>>

\* Lines 88-98: an iteration of the postamble loop that pops the last line
StepPostamblePop ==
    /\ san_pc = "postamble"
    /\ Len(san_lines) > 0
    /\ IsPostambleLine(san_lines[Len(san_lines)])
    /\ san_lines' = SubSeq(san_lines, 1, Len(san_lines) - 1)
    /\ UNCHANGED <<code_in, code_out, san_pc, san_attempts, san_text, san_raw,
                   san_in_fence>>
    /\ UNCHANGED other_runs
    /\ UNCHANGED <<quiz_vars, progress_vars>>

\* Lines 88 and 99: the postamble loop ends
StepPostambleEnd ==
    /\ san_pc = "postamble"
    /\ ~(Len(san_lines) > 0 /\ IsPostambleLine(san_lines[Len(san_lines)]))
    /\ san_pc' = "recovery"
    /\ UNCHANGED <<code_in, code_out, san_lines, san_attempts, san_text,
                   san_raw, san_in_fence>>
    /\ UNCHANGED other_runs
    /\ UNCHANGED <<quiz_vars, progress_vars>>

\* Lines 103-106: an iteration of the recovery loop begins; the empty
\* candidate is returned without a parse.
StepCandidate ==
    /\ san_pc = "recovery"
    /\ in_range(san_attempts)
    /\ \E joined \in {join("\n", san_lines)} : san_text' = strip(joined)
    /\ IF san_text' = ""
       THEN /\ code_out' = ""
            /\ san_pc' = "done"
       ELSE /\ san_pc' = "parse"
            /\ UNCHANGED code_out
    /\ UNCHANGED <<code_in, san_lines, san_attempts, san_raw, san_in_fence>>
    /\ UNCHANGED other_runs
    /\ UNCHANGED <<quiz_vars, progress_vars>>

\* Lines 107-116 for the outcome of ast.parse(candidate): a candidate that
\* parses is returned; on SyntaxError the last line is popped, and the
\* candidate is returned when there is none; on any other exception the
\* candidate is returned.
AfterParse(outcome) ==
    IF outcome = "SyntaxError" /\ Len(san_lines) > 0
    THEN /\ san_lines' = pop(san_lines)
         /\ san_pc' = "recovery"
         /\ UNCHANGED code_out
    ELSE IF outcome \in {"ok", "SyntaxError"} \/ recovery_except = "return"
    THEN /\ code_out' = san_text
         /\ san_pc' = "done"
         /\ UNCHANGED san_lines
    ELSE /\ san_pc' = "raised"
         /\ UNCHANGED <<code_out, san_lines>>

\* Lines 107-116
StepParse ==
    /\ san_pc = "parse"
    /\ san_attempts' = san_attempts + 1
    /\ \E outcome \in {ast_parse(san_text)} : AfterParse(outcome)
    /\ UNCHANGED <<code_in, san_text, san_raw, san_in_fence>>
    /\ UNCHANGED other_runs
    /\ UNCHANGED <<quiz_vars, progress_vars>>

\* Line 118: the loop has run all its iterations
StepExhausted ==
    /\ san_pc = "recovery"
    /\ ~in_range(san_attempts)
    /\ \E joined \in {join("\n", san_lines)} : code_out' = strip(joined)
    /\ san_pc' = "done"
    /\ UNCHANGED <<code_in, san_lines, san_attempts, san_text, san_raw,
                   san_in_fence>>
    /\ UNCHANGED other_runs
    /\ UNCHANGED <<quiz_vars, progress_vars>>

StepNext ==
    \/ StepBegin
    \/ StepSplit
    \/ StepFenceLine
    \/ StepJoin
    \/ StepCleaned
    \/ StepPreludePop
    \/ StepPreludeEnd
    \/ StepPostamblePop
    \/ StepPostambleEnd
    \/ StepCandidate
    \/ StepParse
    \/ StepExhausted

\* The interpreter runs the statements of sanitize_code one after the other.
SpecSteps == StepInit /\ [][StepNext]_vars /\ WF_vars(StepNext)

-----------------------------------------------------------------------------
(* Properties                                                              *)

(* C1: sanitize_code is idempotent: sanitizing an already sanitized text   *)
(* returns it unchanged, for every input.                                  *)
C1_Idempotent == san_pc = "twice" => code_out2 = code_out

(* C2: whatever text the model replies, the result of generate_realtime_quiz *)
(* carries a quiz with at least one question.                               *)
C2_QuizNonEmpty ==
    \A t \in callers :
        LET r == loc[t].result
        IN  (r.op = "generate" /\ r.replied /\ isinstance(r.response, "str"))
            => /\ r.success
               /\ Len(dict_get(heap[r.quiz], "questions", PyList(<<>>)).v) >= 1

(* C3: every question of a quiz that the normalizer returned, while it is  *)
(* stored and once it is kept under a generated id, has exactly 4 options  *)
(* that are strings, an integer correct in 0..3 and a non-empty            *)
(* explanation string.                                                     *)
C3_WellFormedQuestions ==
    \A ref \in {loc[t].ref : t \in {u \in callers : pc[u] # "idle"}}
           \cup {QGet(quizzes, k) : k \in {j \in QKeys(quizzes) : startswith(j, "gen_")}} :
        LET questions == dict_get(heap[ref], "questions", PyNone)
        IN  /\ isinstance(questions, "list")
            /\ \A i \in 1..Len(questions.v) :
                  LET q == questions.v[i]
                      options == dict_get(q, "options", PyNone)
                      correct == dict_get(q, "correct", PyNone)
                      explanation == dict_get(q, "explanation", PyNone)
                  IN  /\ isinstance(options, "list")
                      /\ Len(options.v) = 4
                      /\ \A o \in 1..4 : isinstance(options.v[o], "str")
                      /\ isinstance(correct, "int")
                      /\ correct.v \in 0..3
                      /\ isinstance(explanation, "str")
                      /\ explanation.v # ""

\* A reply whose question had "correct": 7 was stored with correct 0.
C3_Witness ==
    \E t \in callers :
        /\ loc[t].result.success
        /\ loc[t].result.response = PyStr("{\"questions\": [{\"question\": \"What is x?\", \"options\": [\"a\", \"b\", \"c\", \"d\"], \"correct\": 7, \"explanation\": \"E\"}]}")
        /\ dict_get(dict_get(heap[loc[t].result.quiz], "questions", PyNone).v[1],
                    "correct", PyNone) = PyInt(0)

(* C4: no operation of the quiz pipeline ends with an exception leaving it: *)
(* every caller gets a value.                                               *)
C4_NoExceptionEscapes == \A t \in callers : ~loc[t].result.raised

\* The fallback parser raised IndexError and the caller got a failure value.
C4_Witness ==
    \E t \in callers :
        /\ loc[t].result.op = "generate"
        /\ loc[t].result.replied
        /\ ~loc[t].result.success
        /\ loc[t].result.error = "Failed to generate quiz: string index out of range"

(* C5: the id a store returned is a key of the mapping for the very object *)
(* stored, a lookup that finds an id finds the object the mapping holds,   *)
(* and a lookup of an id that is no key answers not-found without raising. *)
C5_RoundTrip ==
    \A t \in callers :
        LET r == loc[t].result
        IN  /\ (r.op = "generate" /\ r.success)
               => QGet(quizzes, r.quiz_id) = r.quiz
            /\ (r.op = "submit" /\ r.success)
               => (QGet(quizzes, r.quiz_id) = r.quiz /\ r.seen = heap[r.quiz])
            /\ (r.op \in {"submit", "get_quiz"} /\ r.quiz_id \notin QKeys(quizzes))
               => (~r.success /\ ~r.raised)

\* One caller holds the id its store returned, the other looked it up.
C5_Witness ==
    \E t, u \in callers :
        /\ loc[t].result.op = "generate"
        /\ loc[t].result.success
        /\ loc[u].result.op = "submit"
        /\ loc[u].result.success
        /\ loc[u].result.quiz_id = loc[t].result.quiz_id
        /\ loc[u].result.quiz = loc[t].result.quiz

(* C6: no step changes what a key of the mapping refers to, nor the quiz   *)
(* it refers to: a stored quiz stays stored, the same, under its id.       *)
C6_StoredStaysStored ==
    [][\A k \in QKeys(quizzes) :
          /\ QGet(quizzes', k) = QGet(quizzes, k)
          /\ heap'[QGet(quizzes, k)] = heap[QGet(quizzes, k)]]_vars

\* Two generated quizzes are stored and the first was found by a lookup.
C6_Witness ==
    /\ Cardinality({k \in QKeys(quizzes) : startswith(k, "gen_")}) >= 2
    /\ \E t \in callers :
          /\ loc[t].result.op = "submit"
          /\ loc[t].result.success
          /\ loc[t].result.quiz_id = MakeQuizId(Hex(1))
          /\ loc[t].result.seen = heap[QGet(quizzes, MakeQuizId(Hex(1)))]

(* C7, as the specification states it: when the store is about to return,  *)
(* the quiz it was given has the content it had at the call.               *)
C7_StoreLeavesQuizUnchanged ==
    \A t \in callers : pc[t] = "L38" => heap[loc[t].ref] = loc[t].arg_before

(* C7, amended: the store changes the quiz it is given only in the key     *)
(* quiz_id, which it sets to the generated id; every other key keeps its   *)
(* place and its value.                                                    *)
C7_StoreSetsOnlyQuizId ==
    \A t \in callers :
        pc[t] = "L38" =>
            LET others(d) == SelectSeq(d.v, LAMBDA kv : kv[1] # "quiz_id")
            IN  /\ others(heap[loc[t].ref]) = others(loc[t].arg_before)
                /\ dict_get(heap[loc[t].ref], "quiz_id", PyNone)
                       = PyStr(loc[t].quiz_id)

\* A store is about to return and the quiz, which had a quiz_id of its own
\* and other keys, differs from what was passed.
C7_Witness ==
    \E t \in callers :
        /\ pc[t] = "L38"
        /\ has_key(loc[t].arg_before, "quiz_id")
        /\ has_key(loc[t].arg_before, "questions")
        /\ heap[loc[t].ref] # loc[t].arg_before

(* C8: a store whose disk write failed goes on to line 38 and returns the  *)
(* new id with success, and the mapping holds the quiz under that id.      *)
C8_DiskFailureTolerated ==
    \A t \in callers :
        loc[t].disk_failed =>
            \/ /\ pc[t] = "L38"
               /\ QGet(quizzes, loc[t].quiz_id) = loc[t].ref
            \/ /\ pc[t] = "idle"
               /\ loc[t].result.op = "generate"
               /\ loc[t].result.success
               /\ startswith(loc[t].result.quiz_id, "gen_")
               /\ loc[t].result.quiz # 0
               /\ QGet(quizzes, loc[t].result.quiz_id) = loc[t].result.quiz

\* A generation whose disk write failed has returned its id.
C8_Witness ==
    \E t \in callers :
        /\ loc[t].disk_failed
        /\ pc[t] = "idle"
        /\ loc[t].result.success

(* C9: at most one thread is between the insertion of line 28 and the end  *)
(* of the write of lines 32-34.                                            *)
C9_MutualExclusion ==
    Cardinality({t \in callers : pc[t] \in {"L32", "L33", "L34", "L34_exit"}}) <= 1

(* C10: a submission that found a generated id read the complete quiz: its *)
(* quiz_id is the id looked up and its questions are there.                *)
C10_NoPartialEntry ==
    \A t \in callers :
        LET r == loc[t].result
        IN  (r.op = "submit" /\ r.success /\ startswith(r.quiz_id, "gen_"))
            => /\ dict_get(r.seen, "quiz_id", PyNone) = PyStr(r.quiz_id)
               /\ truthy(dict_get(r.seen, "questions", PyNone))

\* A submission found the id while the store of that id was still running.
C10_Witness ==
    \E t, u \in callers :
        /\ loc[t].result.op = "submit"
        /\ loc[t].result.success
        /\ pc[u] \in {"L32", "L33", "L34", "L34_exit", "L38"}
        /\ loc[u].quiz_id = loc[t].result.quiz_id

(* C11: a question whose correct is a letter of either case, alone or      *)
(* followed by punctuation, is normalized by that letter: A to 0, B to 1,  *)
(* C to 2, D to 3, and any other letter (E) to 0.                          *)
C11_LetterCoercion ==
    \A t \in callers : \A l \in AnswerLetters : \A s \in AnswerSuffixes :
        LET r == loc[t].result
            expected == CASE l \in {"A", "a"} -> 0
                          [] l \in {"B", "b"} -> 1
                          [] l \in {"C", "c"} -> 2
                          [] l \in {"D", "d"} -> 3
                          [] OTHER -> 0
        IN  (/\ r.op = "generate"
             /\ r.replied
             /\ r.response = QuizReply(FourOptions, PyStr(l \o s)))
            => /\ r.success
               /\ LET questions == dict_get(heap[r.quiz], "questions", PyNone).v
                  IN  /\ Len(questions) = 1
                      /\ dict_get(questions[1], "correct", PyNone)
                             = PyInt(expected)

\* The reply whose answer key was "b)" was returned with correct 1.
C11_Witness ==
    \E t \in callers :
        /\ loc[t].result.success
        /\ loc[t].result.response = QuizReply(FourOptions, PyStr("b)"))
        /\ dict_get(dict_get(heap[loc[t].result.quiz], "questions", PyNone).v[1],
                    "correct", PyNone) = PyInt(1)

(* C12: a question whose correct is the text of a number k in 0..3 is      *)
(* normalized to the integer k.                                            *)
C12_NumericStringCoercion ==
    \A t \in callers : \A k \in 0..3 :
        LET r == loc[t].result
        IN  (/\ r.op = "generate"
             /\ r.replied
             /\ r.response = QuizReply(FourOptions, PyStr(NatToStr(k))))
            => /\ r.success
               /\ LET questions == dict_get(heap[r.quiz], "questions", PyNone).v
                  IN  /\ Len(questions) = 1
                      /\ dict_get(questions[1], "correct", PyNone) = PyInt(k)

(* C13, as stated: a question of a reply with fewer than 4 entries in its  *)
(* options is dropped, and one with more than 4 entries is kept with       *)
(* exactly its first 4 entries in their order.                             *)
C13_OptionCountRaw ==
    \A t \in callers : \A o \in OptionLists :
        LET r == loc[t].result
        IN  (/\ r.op = "generate"
             /\ r.replied
             /\ r.response = QuizReply(o, PyInt(2)))
            => /\ r.success
               /\ LET questions == dict_get(heap[r.quiz], "questions", PyNone).v
                  IN  /\ Len(o) < 4 =>
                            \A i \in 1..Len(questions) :
                                dict_get(questions[i], "question", PyNone)
                                    # PyStr("What is x?")
                      /\ Len(o) > 4 =>
                            /\ Len(questions) = 1
                            /\ dict_get(questions[1], "question", PyNone)
                                   = PyStr("What is x?")
                            /\ dict_get(questions[1], "options", PyNone)
                                   = PyList(SubSeq(o, 1, 4))

(* C13, amended: the options that count are those left after each entry is *)
(* trimmed and the blank ones are removed. A question with fewer than 4 of *)
(* them is dropped (never padded); one with 4 or more is kept with exactly *)
(* the first 4 of them in their order.                                     *)
C13_OptionCountClean ==
    \A t \in callers : \A o \in OptionLists :
        LET r == loc[t].result
            clean == SelectSeq([i \in 1..Len(o) |-> PyStr(strip(o[i].v))],
                               LAMBDA x : x.v # "")
        IN  (/\ r.op = "generate"
             /\ r.replied
             /\ r.response = QuizReply(o, PyInt(2)))
            => /\ r.success
               /\ LET questions == dict_get(heap[r.quiz], "questions", PyNone).v
                  IN  IF Len(clean) < 4
                      THEN \A i \in 1..Len(questions) :
                               /\ dict_get(questions[i], "question", PyNone)
                                      # PyStr("What is x?")
                               /\ Len(dict_get(questions[i], "options", PyNone).v) = 4
                      ELSE /\ Len(questions) = 1
                           /\ dict_get(questions[1], "question", PyNone)
                                  = PyStr("What is x?")
                           /\ dict_get(questions[1], "options", PyNone)
                                  = PyList(SubSeq(clean, 1, 4))

\* The question with the entries a, blank, b, c, d was kept with a, b, c, d,
\* and the one with a, blank, b, c was dropped.
C13_Witness ==
    \E t \in callers :
        /\ loc[t].result.success
        /\ loc[t].result.response
               = QuizReply(<<PyStr("a"), PyStr(" "), PyStr("b"), PyStr("c"),
                             PyStr("d")>>, PyInt(2))
        /\ dict_get(dict_get(heap[loc[t].result.quiz], "questions", PyNone).v[1],
                    "options", PyNone) = PyList(FourOptions)

(* C14: when normalization leaves no question, the quiz handed on has      *)
(* exactly one question, the synthetic one about the topic, with 4 options *)
(* and correct 0; when a question survives, the quiz has the surviving     *)
(* questions and no other.                                                 *)
C14_SyntheticFallback ==
    \A t \in callers :
        pc[t] \in {StoreLines[k] : k \in 1..Len(StoreLines)} =>
            LET response == loc[t].response
                topic == loc[t].topic
                loaded == LoadExtracted(extract_json_from_text(response))
                candidate ==
                    IF truthy(loaded) THEN loaded
                    ELSE parse_quiz_response(response.v, topic,
                                             DefaultDifficulty).val
                survivors ==
                    dict_get(normalize_quiz_data(candidate, topic,
                                                 DefaultDifficulty),
                             "questions", PyNone).v
                returned == dict_get(heap[loc[t].ref], "questions", PyNone).v
                Core(q) == <<dict_get(q, "question", PyNone),
                             dict_get(q, "options", PyNone),
                             dict_get(q, "correct", PyNone),
                             dict_get(q, "explanation", PyNone)>>
            IN  IF survivors = <<>>
                THEN /\ Len(returned) = 1
                     /\ dict_get(returned[1], "question", PyNone)
                            = PyStr("Which statement best describes "
                                    \o topic \o "?")
                     /\ Len(dict_get(returned[1], "options", PyNone).v) = 4
                     /\ dict_get(returned[1], "correct", PyNone) = PyInt(0)
                ELSE /\ Len(returned) = Len(survivors)
                     /\ \A i \in 1..Len(returned) :
                            Core(returned[i]) = Core(survivors[i])

\* The reply "garbage text" left no question and the quiz being stored has
\* the synthetic question alone.
C14_Witness ==
    \E t \in callers :
        /\ pc[t] \in {StoreLines[k] : k \in 1..Len(StoreLines)}
        /\ loc[t].response = PyStr("garbage text")
        /\ Len(dict_get(heap[loc[t].ref], "questions", PyNone).v) = 1
        /\ dict_get(dict_get(heap[loc[t].ref], "questions", PyNone).v[1],
                    "question", PyNone)
               = PyStr("Which statement best describes " \o loc[t].topic \o "?")

(* C15: for the prose reply with the question line "1. What is x?", the    *)
(* option lines A) to D) and the line "Correct: C", the returned quiz has  *)
(* exactly 1 question, with 4 options and correct 2.                       *)
C15_ScenarioB ==
    \A t \in callers :
        LET r == loc[t].result
        IN  (/\ r.op = "generate"
             /\ r.replied
             /\ r.response = ProseReply("1.", "Correct: C"))
            => /\ r.success
               /\ LET questions == dict_get(heap[r.quiz], "questions", PyNone).v
                  IN  /\ Len(questions) = 1
                      /\ Len(dict_get(questions[1], "options", PyNone).v) = 4
                      /\ dict_get(questions[1], "correct", PyNone) = PyInt(2)

(* C16: for a text that is a single fenced block (the opening fence with a *)
(* language tag, the code lines, the closing fence), sanitize_code returns *)
(* exactly the code lines.                                                 *)
C16_FenceRemoval ==
    \A b \in FencedBodies :
        (san_pc # "start" /\ code_in = FencedBlock(b))
            => code_out = join("\n", b)

(* C17: for the reply of scenario A, sanitize_code yields the four code    *)
(* lines from "# comment" on, validate_syntax yields (True, None) and      *)
(* detect_dependencies yields the empty list.                              *)
C17_ScenarioA ==
    code_in = ScenarioA
        => /\ san_pc # "start" =>
                  code_out = "# comment\nimport json\ndef f():\n    return 1"
           /\ is_valid # PyNone => is_valid = [ok |-> TRUE, error |-> PyNone]
           /\ deps # PyNone => deps = PyList(<<>>)

C19_PostambleSkip ==
    (san_pc # "start" /\ code_out # "") =>
        LET last == strip(split(code_out, "\n")[Len(split(code_out, "\n"))])
        IN  /\ last # ""
            /\ \A m \in {Fence, "---", "###", "##", "# ", "**", "*"} :
                   ~startswith(last, m)
            /\ \A w \in {"explanation", "note", "notes", "output",
                         "example output", "usage:"} :
                   ~startswith(lower(last), w)

(* C20: sanitize_code terminates for every input; every iteration of its   *)
(* prelude loop and of its postamble loop removes one line; and the        *)
(* recovery loop makes at most 200 parse attempts before it returns.       *)
C20_BoundedRecovery ==
    /\ [](san_attempts <= 200)
    /\ [][(san_pc \in {"prelude", "postamble"} /\ san_pc' = san_pc)
              => Len(san_lines') = Len(san_lines) - 1]_vars
    /\ <>(san_pc = "done")

\* The recovery loop used up its 200 attempts on the long reply and
\* sanitize_code returned the two lines that were left.
C20_Witness ==
    /\ san_pc = "done"
    /\ code_in = PyStr(LongInput)
    /\ san_attempts = 200
    /\ code_out = "Here is the solution:\nprint(1)"

(* C21: validate_syntax(code) returns (True, None) only when the code it   *)
(* is given parses; for code with a syntax error it returns False with a   *)
(* diagnostic text; it never raises.                                       *)
C21_ValidateReportsErrors ==
    is_valid # PyNone =>
        /\ is_valid.ok <=> (ast_parse(code_in) = "ok")
        /\ is_valid.ok => is_valid.error = PyNone
        /\ ~is_valid.ok => is_valid.error.t = "str"

(* C23: for code that parses, detect_dependencies returns the sorted,      *)
(* duplicate-free install names of the modules the code imports: standard  *)
(* library modules left out, mapped names replaced, the others unchanged.  *)
C23_DependencyList ==
    (deps # PyNone /\ ast_parse(code_in) = "ok")
        => deps = detected_packages(imported_modules(code_in))

(* C24: detect_dependencies never raises, and returns the empty list for   *)
(* code with a syntax error and for code on which parsing fails otherwise. *)
C24_BestEffort ==
    deps # PyNone =>
        /\ deps.t = "list"
        /\ ast_parse(code_in) # "ok" => deps.v = <<>>

(* C22: sanitize_code returns a text for every text it is given, whether   *)
(* the parser accepts the text, raises SyntaxError or raises another       *)
(* exception: no exception leaves it; for the empty text and for None it   *)
(* returns the empty text.                                                 *)
C22_SanitizeTotal ==
    /\ san_pc # "raised"
    /\ san_pc = "done" => code_out \in STRING
    /\ (san_pc = "done" /\ ~truthy(code_in)) => code_out = ""

\* sanitize_code has returned the candidate on which the parser raised an
\* exception other than SyntaxError.
C22_Witness ==
    /\ san_pc = "done"
    /\ code_in = PyStr("print(1)\ns = '" \o LoneSurrogate \o "'")
    /\ code_out = code_in.v

\* sanitize_code has returned "" for None.
C22_WitnessAbsent ==
    /\ san_pc = "done"
    /\ code_in = PyNone
    /\ code_out = ""

C26_CleanCodeKept ==
    (/\ san_pc # "start"
     /\ ast_parse(code_in) = "ok"
     /\ \A i \in 1..Len(split(code_in, "\n")) :
            ~startswith(strip(split(code_in, "\n")[i]), Fence))
        => code_out = strip(code_in)

(* C27: a quiz that generate_realtime_quiz builds through the fallback     *)
(* parser has at most 5 questions, however many question lines the reply   *)
(* holds.                                                                  *)
C27_FallbackCap ==
    \A t \in callers :
        LET r == loc[t].result
        IN  (/\ r.op = "generate"
             /\ r.replied
             /\ r.success
             /\ isinstance(r.response, "str")
             /\ ~truthy(LoadExtracted(extract_json_from_text(r.response))))
            => Len(dict_get(heap[r.quiz], "questions", PyNone).v) <= 5

\* The reply with seven questions gave a quiz with the first five of them.
C27_Witness ==
    \E t \in callers :
        /\ loc[t].result.success
        /\ loc[t].result.response = ManyQuestionsReply(7)
        /\ LET questions ==
                   dict_get(heap[loc[t].result.quiz], "questions", PyNone).v
           IN  /\ Len(questions) = 5
               /\ \A i \in 1..5 :
                      dict_get(questions[i], "question", PyNone)
                          = PyStr("What is x" \o NatToStr(i) \o "?")

\* Lines 163-195 of generate_realtime_quiz: the quiz as it stands when line
\* 198 hands it to the enrichment, for a reply that gives a quiz.
PlainQuiz(response, topic, difficulty) ==
    With(LoadExtracted(extract_json_from_text(response)),
         LAMBDA loaded :
             QuizToEnrich(
                 normalize_quiz_data(
                     IF truthy(loaded) THEN loaded
                     ELSE parse_quiz_response(response.v, topic, difficulty).val,
                     topic, difficulty),
                 topic, difficulty))

\* The question dict q without the fields of the enrichment
WithoutScores(q) == PyDict(SelectSeq(q.v, LAMBDA kv : kv[1] \notin ScoreFields))

\* The quiz dict without the fields the enrichment added to its questions
QuizWithoutScores(quiz) ==
    dict_set(quiz, "questions",
             PyList([i \in 1..Len(dict_get(quiz, "questions", PyNone).v) |->
                        WithoutScores(dict_get(quiz, "questions", PyNone).v[i])]))

(* C28: whatever the text-analysis collaborator does (every call answers,  *)
(* with or without a score, or one of the calls raises), the quiz that     *)
(* comes out of the enrichment is the quiz that went in with nothing but   *)
(* score fields added to its questions: same questions in the same order,  *)
(* each with the question, options, correct and explanation it had.        *)
C28_EnrichmentAdvisory ==
    \A t \in callers :
        isinstance(loc[t].arg_before, "dict")
        => QuizWithoutScores(loc[t].arg_before)
               = PlainQuiz(loc[t].response, loc[t].topic, DefaultDifficulty)

\* The second call of the collaborator raised: the first question has its
\* sentiment score and no confidence, and the quiz was handed to the store.
C28_Witness ==
    \E t \in callers :
        /\ isinstance(loc[t].arg_before, "dict")
        /\ LET questions == dict_get(loc[t].arg_before, "questions", PyNone).v
           IN  /\ Len(questions) >= 2
               /\ has_key(questions[1], "sentiment_score")
               /\ ~has_key(questions[1], "qa_confidence")
               /\ \A i \in 2..Len(questions) :
                      \A f \in ScoreFields : ~has_key(questions[i], f)

\* The ids of the mapping json.dump walked at line 34 for thread t: every id
\* known when the thread stored its quiz, and the new one.
KnownAtDump(t) == QKeys(load_quizzes(loc[t].buffer).v)

(* C29: when a store operation has written the file without an exception  *)
(* (the with block of lines 33-34 is left normally), the file holds every  *)
(* id the mapping had when the operation dumped it, the new one included,  *)
(* each with a quiz equal to the one in memory: a QuizSystem constructed   *)
(* from the file at that moment retrieves each of them.                    *)
C29_FileMirrorsMemory ==
    [][\A t \in callers :
          (pc[t] = "L34_exit" /\ pc'[t] = "L38" /\ ~loc'[t].disk_failed)
          => \A k \in KnownAtDump(t) :
                 dict_get(load_quizzes(quiz_file'), k, PyNone)
                     = heap'[QGet(quizzes', k)]]_vars

-----------------------------------------------------------------------------
(* The progress tracker (utils/progress_utils.py). user_progress is the    *)
(* mapping under the key "user_progress" of data/user_progress.json; every *)
(* operation loads the file, works on the record of one user and saves.    *)

\* How many operations of the progress tracker a behaviour runs.
MaxProgressOps == 3

\* Lines 141-142 and 185-186: the length interaction_history is cut to
HistoryCap == 500

\* Lines 172 and 183: the pass mark of a quiz, in percent
PassMark == 70

\* _now_iso(), lines 14-15: the text of the clock, the same at every call
now_iso == PyStr("2024-01-01T00:00:00")

Users == {"alice", "bob"}

\* A course of one module with two topics, as the code reads it (lines
\* 145-154 and 199-247), and no course file (lines 29-30).
SmallCourse == [t |-> "course", modules |-> <<[id |-> "m1", topics |-> <<"t1", "t2">>]>>]

Courses == {PyNone, SmallCourse}

\* Lines 64-69
ZeroUsage ==
    PyDict(<< <<"text", PyInt(0)>>, <<"code", PyInt(0)>>,
              <<"audio", PyInt(0)>>, <<"image", PyInt(0)>> >>)

\* Lines 54-71: the record of a user met for the first time
NewUserProgress(username) ==
    PyDict(<< <<"username", PyStr(username)>>,
              <<"started_at", now_iso>>,
              <<"modules_completed", PyList(<<>>)>>,
              <<"topics_completed", PyList(<<>>)>>,
              <<"quiz_scores", PyDict(<<>>)>>,
              <<"current_module", PyNone>>,
              <<"current_topic", PyNone>>,
              <<"total_time_spent", PyInt(0)>>,
              <<"last_activity", now_iso>>,
              <<"modality_usage", ZeroUsage>>,
              <<"interaction_history", PyList(<<>>)>> >>)

\* Lines 318-327 if the record written were the one of lines 54-71
ResetRecord_Full(username) == NewUserProgress(username)

\* Lines 318-327: the record reset_user_progress writes
ResetRecord(username) ==
    PyDict(<< <<"username", PyStr(username)>>,
              <<"started_at", now_iso>>,
              <<"modules_completed", PyList(<<>>)>>,
              <<"topics_completed", PyList(<<>>)>>,
              <<"current_module", PyNone>>,
              <<"current_topic", PyNone>>,
              <<"total_time_spent", PyInt(0)>>,
              <<"last_activity", now_iso>> >>)

\* d[k] = x if d has no key k yet (lines 75-78, 166-167)
set_default(d, k, x) == IF has_key(d, k) THEN d ELSE dict_set(d, k, x)

\* Lines 74-78
Backfill(record) ==
    set_default(set_default(record, "modality_usage", ZeroUsage),
                "interaction_history", PyList(<<>>))

\* Lines 47-82: the record returned and the mapping the file then holds
get_user_progress(file, username) ==
    IF truthy(dict_get(file, username, PyDict(<<>>)))
    THEN [file |-> file,
          record |-> Backfill(dict_get(file, username, PyDict(<<>>)))]
    ELSE [file |-> dict_set(file, username, NewUserProgress(username)),
          record |-> Backfill(NewUserProgress(username))]

\* The first key of `fields` the dict lacks, "" if it has them all: the
\* KeyError a run of subscripts record[field] raises.
KeyErrorOf(record, fields) ==
    IF \A i \in 1..Len(fields) : has_key(record, fields[i]) THEN ""
    ELSE "KeyError: " \o
         fields[CHOOSE i \in 1..Len(fields) :
                    /\ ~has_key(record, fields[i])
                    /\ \A j \in 1..(i - 1) : has_key(record, fields[j])]

\* x in list
list_has(list, x) == \E i \in 1..Len(list.v) : list.v[i] = x

\* list.append(x)
list_append(list, x) == PyList(Append(list.v, x))

\* Lines 141-142 and 185-186
CapHistory(record) ==
    With(dict_get(record, "interaction_history", PyNone).v,
         LAMBDA history :
             IF Len(history) > HistoryCap
             THEN dict_set(record, "interaction_history",
                      PyList(SubSeq(history, Len(history) - HistoryCap + 1,
                                    Len(history))))
             ELSE record)

\* Lines 133-142 and 176-186: one more event in the history
LogEvent(record, entry) ==
    CapHistory(dict_set(record, "interaction_history",
        list_append(dict_get(record, "interaction_history", PyNone), entry)))

\* Lines 97-101: the modality as one of the four buckets, or None
ModalityBucket(modality) ==
    IF truthy(modality)
          /\ lower(strip(modality.v)) \in {"text", "code", "audio", "image"}
    THEN PyStr(lower(strip(modality.v)))
    ELSE PyNone

\* Lines 103-109 for an integer
TimeSpentInt(time_spent) == IF time_spent < 0 THEN 0 ELSE time_spent

\* Line 111
AddTime(record, seconds) ==
    dict_set(record, "total_time_spent",
             PyInt(dict_get(record, "total_time_spent", PyNone).v + seconds))

\* Lines 113-114
CompleteTopic(record, topic_id, completed) ==
    IF completed /\ ~list_has(dict_get(record, "topics_completed", PyNone),
                              PyStr(topic_id))
    THEN dict_set(record, "topics_completed",
             list_append(dict_get(record, "topics_completed", PyNone),
                         PyStr(topic_id)))
    ELSE record

\* Lines 121-123
CountModality(record, bucket) ==
    IF truthy(bucket)
    THEN dict_set(record, "modality_usage",
             dict_set(dict_get(record, "modality_usage", PyNone), bucket.v,
                 PyInt(dict_get(dict_get(record, "modality_usage", PyNone),
                                bucket.v, PyInt(0)).v + 1)))
    ELSE record

RECURSIVE CompleteModules(_, _, _)
\* Lines 145-150: every module whose topics are all completed is completed
CompleteModules(record, modules, i) ==
    IF i > Len(modules) THEN record
    ELSE CompleteModules(
             IF /\ \A k \in 1..Len(modules[i].topics) :
                      list_has(dict_get(record, "topics_completed", PyNone),
                               PyStr(modules[i].topics[k]))
                /\ ~list_has(dict_get(record, "modules_completed", PyNone),
                             PyStr(modules[i].id))
             THEN dict_set(record, "modules_completed",
                      list_append(dict_get(record, "modules_completed", PyNone),
                                  PyStr(modules[i].id)))
             ELSE record,
             modules, i + 1)

\* Lines 144-150
CheckModules(record, course) ==
    IF truthy(course) THEN CompleteModules(record, course.modules, 1)
    ELSE record

\* Lines 152-156
SetCurrentModule(record, course) ==
    With(dict_get(record, "modules_completed", PyNone).v,
         LAMBDA done :
             dict_set(record, "current_module",
                 IF Len(done) > 0 THEN done[Len(done)]
                 ELSE IF truthy(course) THEN PyStr(course.modules[1].id)
                 ELSE PyNone))

\* Lines 133-140
TopicEvent(topic_id, event, completed, seconds, bucket) ==
    PyDict(<< <<"ts", now_iso>>, <<"topic_id", PyStr(topic_id)>>,
              <<"event", PyStr(event)>>, <<"completed", PyBool(completed)>>,
              <<"time_spent", PyInt(seconds)>>, <<"modality", bucket>> >>)

\* Lines 111-156: the record after the update
UpdatedTopicRecord(record, course, topic_id, completed, seconds, bucket, event) ==
    SetCurrentModule(
        CheckModules(
            LogEvent(
                CountModality(
                    dict_set(dict_set(
                        CompleteTopic(AddTime(record, seconds), topic_id, completed),
                        "last_activity", now_iso),
                        "current_topic", PyStr(topic_id)),
                    bucket),
                TopicEvent(topic_id, event, completed, seconds, bucket)),
            course),
        course)

\* The keys lines 111-152 subscript, in the order they are read
TopicReads(course, completed) ==
    <<"total_time_spent">>
    \o (IF completed THEN <<"topics_completed">> ELSE <<>>)
    \o <<"interaction_history">>
    \o (IF truthy(course) THEN <<"topics_completed">> ELSE <<>>)
    \o <<"modules_completed">>

\* What an operation on the record `got.record` leaves: the mapping with
\* the new record saved, or a KeyError and the mapping as it was.
SaveUnlessRaised(got, username, raised, record) ==
    IF raised # "" THEN [file |-> got.file, raised |-> raised]
    ELSE [file |-> dict_set(got.file, username, record), raised |-> ""]

\* Lines 84-155
update_topic_progress(file, course, username, topic_id, completed, time_spent, modality, event) ==
    With(get_user_progress(file, username),
         LAMBDA got :
             IF KeyErrorOf(got.record, TopicReads(course, completed)) # ""
             THEN [file |-> got.file,
                   raised |-> KeyErrorOf(got.record, TopicReads(course, completed))]
             ELSE SaveUnlessRaised(got, username, "",
                      UpdatedTopicRecord(got.record, course, topic_id, completed,
                          TimeSpentInt(time_spent), ModalityBucket(modality),
                          event)))

\* app.py line 1287: the score is a float, a percentage
ScoreValue(score) == PyFloat(NatToStr(score) \o ".0")

\* Lines 165-174: the attempts and failures of a topic
ErrorPattern(patterns, topic, score) ==
    With(dict_get(patterns, topic,
                  PyDict(<< <<"attempts", PyInt(0)>>, <<"failures", PyInt(0)>>,
                            <<"last_score", PyNone>> >>)),
         LAMBDA topic_pattern :
             With(dict_set(dict_set(topic_pattern, "attempts",
                               PyInt(dict_get(topic_pattern, "attempts", PyInt(0)).v + 1)),
                           "last_score", ScoreValue(score)),
                  LAMBDA counted :
                      IF score < PassMark
                      THEN dict_set(counted, "failures",
                               PyInt(dict_get(counted, "failures", PyInt(0)).v + 1))
                      ELSE counted))

\* Lines 177-183
QuizEvent(topic, score) ==
    PyDict(<< <<"ts", now_iso>>, <<"topic_id", PyStr(topic)>>,
              <<"event", PyStr("quiz_submitted")>>, <<"score", ScoreValue(score)>>,
              <<"passed", PyBool(score >= PassMark)>> >>)

\* Lines 162-186: the record after the score is entered
ScoredRecord(record, topic, score) ==
    With(set_default(
             dict_set(dict_set(record, "quiz_scores",
                          dict_set(dict_get(record, "quiz_scores", PyNone),
                                   topic, ScoreValue(score))),
                      "last_activity", now_iso),
             "error_patterns", PyDict(<<>>)),
         LAMBDA r :
             LogEvent(dict_set(r, "error_patterns",
                          dict_set(dict_get(r, "error_patterns", PyNone), topic,
                              ErrorPattern(dict_get(r, "error_patterns", PyNone),
                                           topic, score))),
                      QuizEvent(topic, score)))

\* Lines 157-190
update_quiz_score(file, username, topic, score) ==
    With(get_user_progress(file, username),
         LAMBDA got :
             IF KeyErrorOf(got.record, <<"quiz_scores">>) # ""
             THEN [file |-> got.file,
                   raised |-> KeyErrorOf(got.record, <<"quiz_scores">>)]
             ELSE SaveUnlessRaised(got, username, "",
                      ScoredRecord(got.record, topic, score)))

\* Lines 203-214: the keys get_course_progress subscripts, in order
SummaryReads ==
    <<"modules_completed", "topics_completed", "current_module",
      "current_topic", "total_time_spent", "started_at", "last_activity",
      "quiz_scores">>

\* Lines 192-247: nothing is saved but a record made for a new user
get_course_progress(file, course, username) ==
    With(get_user_progress(file, username),
         LAMBDA got :
             [file |-> got.file,
              raised |-> IF truthy(course)
                         THEN KeyErrorOf(got.record, SummaryReads)
                         ELSE ""])

\* Lines 314-328
reset_user_progress(file, username) ==
    [file |-> IF has_key(file, username)
              THEN dict_set(file, username, ResetRecord(username))
              ELSE file,
     raised |-> ""]

\* An operation ran: the file it left and how it ended.
ProgressDone(op, username, outcome) ==
    /\ progress_ops < MaxProgressOps
    /\ progress_ops' = progress_ops + 1
    /\ user_progress' = outcome.file
    /\ progress_out' = [op |-> op, username |-> username,
                        raised |-> outcome.raised]
    /\ UNCHANGED <<course_structure, san_vars, quiz_vars>>

\* What the pages send to /api/update-progress and /api/error-teaching
\* (app.py lines 1038-1056 and 1342-1349).
TopicUpdates ==
    {[topic_id |-> "t1", completed |-> TRUE, time_spent |-> 30,
      modality |-> PyStr("Code"), event |-> "completed"],
     [topic_id |-> "t2", completed |-> TRUE, time_spent |-> -5,
      modality |-> PyNone, event |-> "completed"],
     [topic_id |-> "t1", completed |-> FALSE, time_spent |-> 0,
      modality |-> PyStr("text"), event |-> "error_teaching_requested"]}

QuizScores == {50, 100}

UpdateTopicProgress ==
    \E username \in Users, u \in TopicUpdates :
        ProgressDone("update_topic_progress", username,
            update_topic_progress(user_progress, course_structure, username,
                u.topic_id, u.completed, u.time_spent, u.modality, u.event))

\* submit_quiz, app.py line 1290
UpdateQuizScore ==
    \E username \in Users, score \in QuizScores :
        ProgressDone("update_quiz_score", username,
            update_quiz_score(user_progress, username, "kNN", score))

GetCourseProgress ==
    \E username \in Users :
        ProgressDone("get_course_progress", username,
            get_course_progress(user_progress, course_structure, username))

ResetUserProgress ==
    \E username \in Users :
        ProgressDone("reset_user_progress", username,
            reset_user_progress(user_progress, username))

ProgressNext ==
    \/ UpdateTopicProgress
    \/ UpdateQuizScore
    \/ GetCourseProgress
    \/ ResetUserProgress

\* ensure_progress_file, lines 17-22: the file starts with no user.
ProgressInit ==
    /\ user_progress = PyDict(<<>>)
    /\ course_structure \in Courses
    /\ progress_out = [op |-> "none", username |-> "", raised |-> ""]
    /\ progress_ops = 0
    /\ code_in = ""
    /\ code_out = ""
    /\ code_out2 = ""
    /\ san_pc = "off"
    /\ is_valid = PyNone
    /\ deps = PyNone
    /\ san_lines = <<>>
    /\ san_attempts = 0
    /\ san_text = ""
    /\ san_raw = <<>>
    /\ san_in_fence = FALSE
    /\ NoQuizCalls

SpecProgress == ProgressInit /\ [][ProgressNext]_vars

\* The fields of a record the operations read
RecordFields ==
    {"quiz_scores", "topics_completed", "modules_completed",
     "total_time_spent", "interaction_history", "modality_usage"}

(* C30: whatever update_topic_progress, update_quiz_score and              *)
(* reset_user_progress calls came before, the record get_user_progress     *)
(* gives for a user of the file has every field the operations read, and   *)
(* no operation, update_quiz_score and get_course_progress included, ends  *)
(* with a KeyError for a missing field.                                    *)
C30_RecordUsable ==
    /\ progress_out.raised = ""
    /\ \A username \in Users :
          has_key(user_progress, username)
          => \A field \in RecordFields :
                 has_key(get_user_progress(user_progress, username).record, field)

====
